---- MODULE Spec2Model ----
(***************************************************************************)
(* airsquawk aircraft tracker: the poll loop of src/tools/aircraft_tracker *)
(* .py (tracking table, observation buffer, minute flush), the hourly      *)
(* rollup and the reception-record map, as state machines.                 *)
(*                                                                         *)
(* One wall clock `clock` (seconds) stands for time.time() and             *)
(* datetime.now(timezone.utc); every read of either in an action sees the  *)
(* clock value of that action.  The specifications share the variables:    *)
(*   Spec         the poll loop: fetch, update_aircraft_tracking, the two  *)
(*                minute-flush checks, sleep (the steps of the loop body   *)
(*                that write none of these variables are left to the other *)
(*                specifications);                                         *)
(*   SpecRollup   the same loop with the upload_to_s3 / hourly rollup step *)
(*                and storage failures, over a few snapshot lists;         *)
(*   SpecRecords  startup and per-tick writes of sector_altitude_records;  *)
(*   SpecFields   the loop with the identity fields, the lookup tiers and  *)
(*                the position tally;                                      *)
(*   SpecStartup  the counts taken at startup, then the loop of SpecFields;*)
(*   SpecSweep    the loop over ticks minutes apart (eviction, notifier);  *)
(*   SpecLag      the loop with a clock that moves inside a tick;          *)
(*   SpecRestart  the loop with shutdown and restart;                      *)
(*   SpecSectors  get_sector and get_altitude_zone over their inputs.      *)
(***************************************************************************)
EXTENDS Integers, Sequences, FiniteSets, TLC

VARIABLES
    clock,                    \* wall clock, seconds
    pc,                       \* position of main() in its loop / startup
    iteration,                \* main's loop counter
    run,                      \* history: which start of the program this is
    s3_upload_enabled,        \* main's s3_upload_enabled
    current_aircraft,         \* main's local: the list fetched this tick
    aircraft_tracking,        \* hex -> AircraftState
    pending_aircraft,         \* buffer of ObservationRecords
    current_time,             \* main's local current_time of this tick
    last_minute_upload_time,
    s3_objects,               \* the log bucket: key -> [kind, lines]; kind
                              \* records which writer stored the object
    valid_log,                \* history: every valid position fetched so far
    emitted,                  \* history: number of records ever appended
    url_calls,                \* history: the lists save_flightaware_urls got
    position_windows,         \* positions_last_minute, _10min, _hour, _day
    put_log,                  \* history: the successful minute puts
    last_s3_upload_time,
    last_hourly_rollup_hour,
    rollup_log,               \* history: what the latest rollup call did
    receiver_lat,
    receiver_lon,
    sector_altitude_records,  \* (sector, zone) -> ReceptionRecord
    reception_file,           \* the persisted reception-record rows
    reception_object,         \* the copy of the file in the reception bucket
    max_slant_range_record,   \* its slant distance; 0 while it is None
    report_infos,             \* history: the aircraft the last report read
    history_cache,            \* hex -> fields found in the history files
    type_db_object,           \* the bucket's aircraft_type_database.json
    aircraft_type_db,         \* _aircraft_type_db: [loaded, db]
    icao_cache,               \* the per-hex cache bucket: hex -> entry
    static_db,                \* the receiver's /db/ files: hex -> entry
    db_cache,                 \* hex -> result of get_db_info
    lookup_log,               \* history: requests made by the lookups
    cache_log,                \* history: calls of set_icao_cache_to_s3
    runtime_files,            \* records of the minute files in RUNTIME_DIR
    position_reports_24h,
    running_position_count

vars == <<clock, pc, iteration, run, s3_upload_enabled, current_aircraft,
          aircraft_tracking, pending_aircraft, current_time,
          last_minute_upload_time, s3_objects, valid_log, emitted, put_log,
          last_s3_upload_time, last_hourly_rollup_hour, rollup_log,
          receiver_lat, receiver_lon, sector_altitude_records, reception_file,
          reception_object, max_slant_range_record, report_infos, history_cache,
          type_db_object, aircraft_type_db, icao_cache, static_db, db_cache,
          lookup_log, cache_log, runtime_files, position_reports_24h,
          running_position_count, url_calls, position_windows>>

trackVars  == <<current_aircraft, aircraft_tracking, pending_aircraft,
                valid_log, emitted, url_calls, position_windows>>
flushVars  == <<current_time, last_minute_upload_time, put_log>>
rollupVars == <<last_s3_upload_time, last_hourly_rollup_hour, rollup_log>>
recordVars == <<receiver_lat, receiver_lon, sector_altitude_records,
                reception_file, reception_object, max_slant_range_record,
                report_infos>>
lookupVars == <<history_cache, type_db_object, aircraft_type_db, icao_cache,
                static_db, db_cache, lookup_log, cache_log>>
statVars   == <<runtime_files, position_reports_24h, running_position_count>>
envVars    == <<run, s3_upload_enabled, lookupVars, statVars>>

----------------------------------------------------------------------------
(* Bounds of the model.                                                    *)

MaxTicks   == 3      \* poll-loop iterations explored from StartClock on

(* Program constants.                                                      *)

TIMEOUT_SECONDS  == 30     \* eviction timeout
BackfillWindow   == 5      \* 'GPS approx' backfill window, seconds
FlushInterval    == 60     \* minute-flush period, seconds
SecondsPerHour   == 3600
HoursPerDay      == 24

(* time.time() at start-up is far beyond one flush interval, so the first  *)
(* flush check of a run passes (last_minute_upload_time starts at 0.0).    *)
StartClock == 2 * SecondsPerHour

----------------------------------------------------------------------------
(* Values of snapshot fields.  A field is absent/None, the literal 'N/A',  *)
(* or a number.                                                            *)

None   == [k |-> "none", v |-> 0]
NA     == [k |-> "na",   v |-> 0]
Num(n) == [k |-> "num",  v |-> n]

NoHex == ""            \* 'hex' missing or empty: `not hex_code`

(* Further values a coordinate of a decoded JSON body can be: a numeric     *)
(* string, a float that is NaN or an infinity (v is its sign), an integer   *)
(* beyond the range of a float (v is its sign) and a list.                  *)
Str(n)  == [k |-> "str",  v |-> n]
NaN     == [k |-> "nan",  v |-> 0]
Inf(s)  == [k |-> "inf",  v |-> s]
Huge(s) == [k |-> "huge", v |-> s]
List    == [k |-> "list", v |-> 0]

(* float(x), lines 186-187: the float, or the exception raised.  A string  *)
(* that is no number (kind "text", 'N/A' included) raises ValueError, None  *)
(* and a list raise TypeError, an integer too large for a float raises     *)
(* OverflowError.                                                          *)
Float(x) ==
    CASE x.k \in {"num", "nan", "inf"} -> [exc |-> "", f |-> x]
      [] x.k = "str"                   -> [exc |-> "", f |-> Num(x.v)]
      [] x.k \in {"text", "na"}        -> [exc |-> "ValueError", f |-> NaN]
      [] x.k = "huge"                  -> [exc |-> "OverflowError", f |-> NaN]
      [] OTHER                         -> [exc |-> "TypeError", f |-> NaN]

(* except (TypeError, ValueError), line 188.                               *)
CaughtByFloat == {"TypeError", "ValueError"}

(* lo <= f <= hi for a float f, line 190: false for NaN, false for an      *)
(* infinity.                                                               *)
Within(f, lo, hi) == f.k = "num" /\ lo <= f.v /\ f.v <= hi

Gives(value) == [exc |-> "", value |-> value]
Raises(exc)  == [exc |-> exc, value |-> FALSE]

(* is_valid_position(lat, lon), lines 177-192, as a call: what it returns  *)
(* or raises.  A missing key reaches it as None (aircraft.get).            *)
position_call(lat, lon) ==
    IF lat.k \in {"none", "na", "missing"} \/ lon.k \in {"none", "na", "missing"}
    THEN Gives(FALSE)
    ELSE IF Float(lat).exc \in CaughtByFloat THEN Gives(FALSE)
    ELSE IF Float(lat).exc # "" THEN Raises(Float(lat).exc)
    ELSE IF Float(lon).exc \in CaughtByFloat THEN Gives(FALSE)
    ELSE IF Float(lon).exc # "" THEN Raises(Float(lon).exc)
    ELSE Gives(Within(Float(lat).f, -90, 90) /\ Within(Float(lon).f, -180, 180))

(* is_valid_position(lat, lon) where a test reads it: the call returned    *)
(* True.                                                                   *)
is_valid_position(lat, lon) == position_call(lat, lon) = Gives(TRUE)

(* aircraft.get(f) if aircraft.get(f) not in (None, 'N/A') else None       *)
NoneIfNA(x) == IF x = None \/ x = NA THEN None ELSE x

DQ_NULL   == "null"
DQ_GPS    == "GPS"
DQ_APPROX == "GPS approx"
DQ_NOPOS  == "No position"

----------------------------------------------------------------------------
(* update_aircraft_tracking                                                *)

(* A new hex: the entry stored in aircraft_tracking, a copy of which is    *)
(* appended to pending_aircraft.                                           *)
NewEntry(ac, now) ==
    [ hex |-> ac.hex,
      first_seen |-> now,
      last_seen |-> now,
      lat |-> NoneIfNA(ac.lat),
      lon |-> NoneIfNA(ac.lon),
      position_timestamp |-> now,
      data_quality |-> DQ_NULL ]

(* A tracked hex, lines 493-538: last_seen and the two coordinates, each   *)
(* coordinate on its own.                                                  *)
MergeCoord(new, old) ==
    IF new # None THEN new
    ELSE IF old = None THEN NA ELSE old

Merged(info, ac, now) ==
    [ info EXCEPT !.last_seen = now,
                  !.lat = MergeCoord(ac.lat, info.lat),
                  !.lon = MergeCoord(ac.lon, info.lon) ]

(* Lines 566-585: the stored entry after the update.                       *)
UpdatedEntry(info, ac, now) ==
    LET m == Merged(info, ac, now) IN
    IF is_valid_position(ac.lat, ac.lon)
    THEN [ m EXCEPT !.lat = ac.lat, !.lon = ac.lon, !.position_timestamp = now ]
    ELSE m

(* Lines 562-587: the record appended for the update.                      *)
UpdateRecord(info, ac, now) ==
    LET m == Merged(info, ac, now) IN
    IF is_valid_position(ac.lat, ac.lon)
    THEN [ m EXCEPT !.lat = ac.lat, !.lon = ac.lon, !.data_quality = DQ_GPS ]
    ELSE IF now - m.position_timestamp <= BackfillWindow
            /\ is_valid_position(m.lat, m.lon)
         THEN [ m EXCEPT !.data_quality = DQ_APPROX ]
         ELSE [ m EXCEPT !.data_quality = DQ_NOPOS ]

Put(f, key, val) == [ x \in DOMAIN f \cup {key} |-> IF x = key THEN val ELSE f[x] ]

(* A variant that buffers an update only when it carries a valid position. *)
ProcessOnePositionsOnly(st, ac, now, lag) ==
    IF ac.hex = NoHex THEN st
    ELSE IF ac.hex \notin DOMAIN st.trk
    THEN [ trk  |-> Put(st.trk, ac.hex, NewEntry(ac, now + lag)),
           pend |-> Append(st.pend, NewEntry(ac, now + lag)) ]
    ELSE [ trk  |-> Put(st.trk, ac.hex, UpdatedEntry(st.trk[ac.hex], ac, now)),
           pend |-> IF is_valid_position(ac.lat, ac.lon)
                    THEN Append(st.pend, UpdateRecord(st.trk[ac.hex], ac, now))
                    ELSE st.pend ]

(* One iteration of the loop over current_aircraft, lines 383-587.  `now`   *)
(* is the pair of clock readings at the head of the function (lines 378    *)
(* and 379), which the update branch uses; the insert branch reads both    *)
(* clocks again (lines 459 and 460), after its lookups, `lag` seconds      *)
(* later.                                                                  *)
ProcessOne(st, ac, now, lag) ==
    IF ac.hex = NoHex THEN st
    ELSE IF ac.hex \notin DOMAIN st.trk
    THEN [ trk  |-> Put(st.trk, ac.hex, NewEntry(ac, now + lag)),
           pend |-> Append(st.pend, NewEntry(ac, now + lag)) ]
    ELSE [ trk  |-> Put(st.trk, ac.hex, UpdatedEntry(st.trk[ac.hex], ac, now)),
           pend |-> Append(st.pend, UpdateRecord(st.trk[ac.hex], ac, now)) ]

RECURSIVE ProcessAll(_, _, _, _)
ProcessAll(st, acs, now, lag) ==
    IF acs = <<>> THEN st
    ELSE ProcessAll(ProcessOne(st, Head(acs), now, lag), Tail(acs), now, lag)

(* The eviction sweep, lines 589-613.                                      *)
Stale(info, now) == now - info.last_seen > TIMEOUT_SECONDS

Sweep(trk, now) ==
    [ h \in { x \in DOMAIN trk : ~Stale(trk[x], now) } |-> trk[h] ]

(* Lines 603-606: `total_time = (now - info['first_seen']).total_seconds() *)
(* ; if total_time >= 300: to_save_urls.append(info)`.                     *)
LongVisibility == 300

(* A variant that asks for more than five minutes.                         *)
LongVisibleStrict(info, now) == now - info.first_seen > LongVisibility

LongVisible(info, now) == now - info.first_seen >= LongVisibility

(* to_save_urls, lines 592-606: the entries of the lost aircraft that were *)
(* first seen long enough ago, one per key, in the order of the loop over  *)
(* aircraft_tracking.items().                                              *)
RECURSIVE InLoopOrder(_, _)
InLoopOrder(trk, keys) ==
    IF keys = {} THEN <<>>
    ELSE LET h == CHOOSE x \in keys : TRUE
         IN <<trk[h]>> \o InLoopOrder(trk, keys \ {h})

to_save_urls(trk, now) ==
    InLoopOrder(trk, { h \in DOMAIN trk : Stale(trk[h], now)
                                          /\ LongVisible(trk[h], now) })

(* Lines 608-610: `if to_save_urls: save_flightaware_urls(to_save_urls)`.  *)
Handed(calls, urls) == IF urls # <<>> THEN Append(calls, urls) ELSE calls

update_aircraft_tracking(trk, pend, acs, now, lag) ==
    LET st == ProcessAll([trk |-> trk, pend |-> pend], acs, now, lag) IN
    [ trk |-> Sweep(st.trk, now), pend |-> st.pend,
      urls |-> to_save_urls(st.trk, now) ]

(* History of the input: the valid positions the source has delivered.     *)
ValidSeen(acs, now) ==
    { [hex |-> acs[i].hex, ts |-> now, lat |-> acs[i].lat, lon |-> acs[i].lon] :
        i \in { j \in DOMAIN acs : acs[j].hex # NoHex
                                   /\ is_valid_position(acs[j].lat, acs[j].lon) } }

----------------------------------------------------------------------------
(* Object keys of the log bucket.  A minute object is named               *)
(* piaware_aircraft_log_YYYYMMDD_HHMM.json (s3_prefix is '' : the          *)
(* config_reader beside the tracker returns no 's3_prefix'), the hourly    *)
(* object of an hour piaware_aircraft_log_YYYYMMDD_HH + "00.json".  A key  *)
(* is the pair (hour since the epoch, MM); the hourly object of hour h has *)
(* the key (h, 0), the same string as the object of minute :00.            *)

HourOf(t)    == t \div SecondsPerHour
MinuteOf(t)  == (t \div 60) % 60
MinuteKey(t) == [hour |-> HourOf(t), mm |-> MinuteOf(t)]
HourlyKey(h) == [hour |-> h, mm |-> 0]

(* upload_minute_file_to_s3, lines 1896-1938: one JSON line per buffered   *)
(* record.  Timestamps are formatted to whole seconds, which clock values  *)
(* already are.                                                            *)
MinuteLine(r) ==
    [ ICAO |-> r.hex,
      Last_Seen |-> r.last_seen,
      First_Seen |-> r.first_seen,
      Latitude |-> r.lat,
      Longitude |-> r.lon,
      Position_Timestamp |-> IF r.position_timestamp # 0
                             THEN r.position_timestamp ELSE r.last_seen,
      Data_Quality |-> r.data_quality ]

MinuteContent(buf) == [ i \in DOMAIN buf |-> MinuteLine(buf[i]) ]

(* upload_minute_file_to_s3(bucket, buffer): put_ok says whether           *)
(* put_object returned or raised (the exception is caught at line 1955).   *)
(* A variant that leaves last_minute_upload_time as it was.                *)
UploadedTimeStale(old, now) == old

UploadedTime(old, now) == now

upload_minute_file_to_s3(buf, put_ok) ==
    IF buf # <<>> /\ put_ok
    THEN [ objs |-> Put(s3_objects, MinuteKey(clock),
                        [kind |-> "minute", lines |-> MinuteContent(buf)]),
           lmut |-> UploadedTime(last_minute_upload_time, clock),
           log  |-> Append(put_log, [ time |-> clock, key |-> MinuteKey(clock),
                                      n |-> Len(buf), tick |-> iteration ]) ]
    ELSE [ objs |-> s3_objects, lmut |-> last_minute_upload_time, log |-> put_log ]

(* pending_aircraft.clear() after the upload call, lines 2703 and 2723.    *)
ClearedBuffer(buf) == <<>>

----------------------------------------------------------------------------
(* The poll loop of main(), lines 2676-3007.                               *)

A(lat, lon) == [hex |-> "a", lat |-> lat, lon |-> lon]
B(lat, lon) == [hex |-> "b", lat |-> lat, lon |-> lon]
X(lat, lon) == [hex |-> NoHex, lat |-> lat, lon |-> lon]

(* What get_aircraft_data() may return: <<>> is an empty list or a failed  *)
(* fetch.                                                                  *)
SnapshotLists ==
    { <<>>,
      << A(Num(40), Num(-74)) >>,
      << A(Num(40), None) >>,
      << A(None, Num(-74)) >>,
      << A(None, None) >>,
      << X(Num(40), Num(-74)), B(Num(41), Num(-74)) >>,
      << A(Num(41), Num(-74)), B(None, None) >>,
      << A(Num(40), Num(-74)), A(None, None) >> }

(* Seconds from one fetch to the next: time.sleep(POLL_INTERVAL) and       *)
(* whatever the tick itself took.                                          *)
SleepDeltas == {3, 31}

(* Seconds from the clock readings at the head of                          *)
(* update_aircraft_tracking to the ones of its insert branch: Spec takes   *)
(* a tick in which the clock does not move, SpecLag lets it move.          *)
InsertLags == {0, 1}

(* `if current_aircraft:`, line 2687: an empty list, which is also what a  *)
(* failed fetch returns (line 265), skips the tick.                        *)
ReceivedAlways(acs) == TRUE
Received(acs) == acs # <<>>

FetchFrom(lists, lags) ==
    /\ pc = "fetch"
    /\ iteration < MaxTicks
    /\ iteration' = iteration + 1
    /\ \E acs \in lists, lag \in lags :
         /\ current_aircraft' = acs
         /\ IF Received(acs)
            THEN LET r == update_aircraft_tracking(aircraft_tracking,
                                                   pending_aircraft, acs, clock, lag)
                 IN /\ aircraft_tracking' = r.trk
                    /\ pending_aircraft' = r.pend
                    /\ emitted' = emitted + (Len(r.pend) - Len(pending_aircraft))
                    /\ valid_log' = valid_log \cup ValidSeen(acs, clock)
                    /\ url_calls' = Handed(url_calls, r.urls)
                    /\ current_time' = clock
                    /\ pc' = "flush1"
            ELSE /\ UNCHANGED <<aircraft_tracking, pending_aircraft, emitted,
                               valid_log, current_time, url_calls>>
                 /\ pc' = "sleep"
    /\ UNCHANGED <<clock, envVars, position_windows, last_minute_upload_time,
                   s3_objects, put_log, rollupVars, recordVars>>

(* `if s3_upload_enabled and current_time - last_minute_upload_time >= 60: *)
(*      upload_minute_file_to_s3(...); pending_aircraft.clear()`           *)
FlushCheck(here, next, outcomes) ==
    /\ pc = here
    /\ pc' = next
    /\ IF s3_upload_enabled /\ current_time - last_minute_upload_time >= FlushInterval
       THEN \E put_ok \in outcomes :
              LET u == upload_minute_file_to_s3(pending_aircraft, put_ok)
              IN /\ s3_objects' = u.objs
                 /\ last_minute_upload_time' = u.lmut
                 /\ put_log' = u.log
                 /\ pending_aircraft' = ClearedBuffer(pending_aircraft)
       ELSE UNCHANGED <<s3_objects, last_minute_upload_time, put_log,
                        pending_aircraft>>
    /\ UNCHANGED <<clock, iteration, envVars, current_aircraft,
                   aircraft_tracking, current_time, valid_log, emitted,
                   url_calls, position_windows, rollupVars, recordVars>>

Fetch  == FetchFrom(SnapshotLists, {0})
Flush1 == FlushCheck("flush1", "flush2", BOOLEAN)
Flush2 == FlushCheck("flush2", "sleep", BOOLEAN)

SleepFor(deltas) ==
    /\ pc = "sleep"
    /\ pc' = "fetch"
    /\ \E d \in deltas : clock' = clock + d
    /\ UNCHANGED <<iteration, envVars, trackVars, flushVars,
                   s3_objects, rollupVars, recordVars>>

Sleep == SleepFor(SleepDeltas)

NoRecords == [ k \in {} |-> 0 ]

(* Lines 107-110: the four lists of position timestamps, empty.            *)
NoWindows == [ last_minute |-> <<>>, last_10min |-> <<>>, last_hour |-> <<>>,
               last_day |-> <<>> ]

NoRollup == [ called |-> FALSE, attempted |-> FALSE, failed |-> FALSE,
              wrote |-> FALSE, hour |-> -1, done_hour |-> -1 ]

(* The module globals behind the lookups and the counters, lines 76-95 and *)
(* 269: empty caches, nothing requested, nothing counted.                  *)
NoLookups ==
    /\ history_cache = NoRecords
    /\ type_db_object = NoRecords
    /\ aircraft_type_db = [loaded |-> FALSE, db |-> NoRecords]
    /\ icao_cache = NoRecords
    /\ static_db = NoRecords
    /\ db_cache = NoRecords
    /\ lookup_log = <<>>
    /\ cache_log = <<>>

NoCounts ==
    /\ runtime_files = <<>>
    /\ position_reports_24h = 0
    /\ running_position_count = 0

Init ==
    /\ clock = StartClock
    /\ pc = "fetch"
    /\ iteration = 0
    /\ run = 1
    /\ s3_upload_enabled \in BOOLEAN
    /\ current_aircraft = <<>>
    /\ aircraft_tracking = NoRecords
    /\ pending_aircraft = <<>>
    /\ current_time = 0
    /\ last_minute_upload_time = 0
    /\ s3_objects = NoRecords
    /\ valid_log = {}
    /\ emitted = 0
    /\ url_calls = <<>>
    /\ position_windows = NoWindows
    /\ put_log = <<>>
    /\ last_s3_upload_time = 0
    /\ last_hourly_rollup_hour = -1
    /\ rollup_log = NoRollup
    /\ receiver_lat = 0
    /\ receiver_lon = 0
    /\ sector_altitude_records = NoRecords
    /\ reception_file = <<>>
    /\ reception_object = <<>>
    /\ max_slant_range_record = 0
    /\ report_infos = <<>>
    /\ NoLookups
    /\ NoCounts

Next == Fetch \/ Flush1 \/ Flush2 \/ Sleep

Spec == Init /\ [][Next]_vars

----------------------------------------------------------------------------
(* rollup_and_cleanup_s3_files, lines 1959-2064, and the step of main()    *)
(* that calls it, lines 2726-2729.                                         *)

(* last_hourly_rollup_hour is declared `global` at line 1961 and read at   *)
(* line 1971.  src/aircraft_tracker.py:109 binds it to -1 at module level; *)
(* src/tools/aircraft_tracker.py has no module-level binding, so there the *)
(* read raises NameError, which the handler at line 2063 swallows.         *)
Unbound == -2

(* now.hour, line 1969: the hour of the day.                               *)
HourOfDay(t) == HourOf(t) % HoursPerDay

(* sorted(): ICAO strings in lexicographic order, then Last_Seen.          *)
HexRank(h) == IF h = "a" THEN 1 ELSE IF h = "b" THEN 2 ELSE 0
LineKey(l) == <<l.ICAO, l.Last_Seen>>
KeyBefore(k1, k2) ==
    \/ HexRank(k1[1]) < HexRank(k2[1])
    \/ k1[1] = k2[1] /\ k1[2] < k2[2]

(* list_objects_v2(Prefix=prev_hour_prefix): the keys of hour h.           *)
ListedKeys(objs, h) == { k \in DOMAIN objs : k.hour = h }

(* Line 1992: every listed key but the hourly one.                         *)
MinuteFiles(objs, h) == ListedKeys(objs, h) \ {HourlyKey(h)}

(* Lines 2004-2028: the lines of the readable files, files in ascending    *)
(* key order; a get_object that raises skips its file.                     *)
RECURSIVE ReadLines(_, _, _)
ReadLines(objs, files, readable) ==
    IF files = {} THEN <<>>
    ELSE LET f == CHOOSE k \in files : \A o \in files : k.mm <= o.mm
         IN (IF f \in readable THEN objs[f].lines ELSE <<>>)
            \o ReadLines(objs, files \ {f}, readable)

(* all_records[(icao, last_seen)] = line: the last line of a key wins.     *)
AllRecords(lines) ==
    [ k \in { LineKey(lines[i]) : i \in DOMAIN lines } |->
        lines[ CHOOSE i \in DOMAIN lines :
                 /\ LineKey(lines[i]) = k
                 /\ \A j \in DOMAIN lines : LineKey(lines[j]) = k => j <= i ] ]

(* Lines 2037-2038: the kept lines in the order of their keys.             *)
RECURSIVE SortedLines(_, _)
SortedLines(recs, keys) ==
    IF keys = {} THEN <<>>
    ELSE LET k == CHOOSE x \in keys : \A y \in keys : x = y \/ KeyBefore(x, y)
         IN <<recs[k]>> \o SortedLines(recs, keys \ {k})

Remove(f, keys) == [ x \in DOMAIN f \ keys |-> f[x] ]

(* One call at time `now`.  list_ok, put_ok: whether list_objects_v2 and   *)
(* the hourly put_object return; readable, deletable: the minute files     *)
(* whose get_object / delete_object return.  The result is the bucket, the *)
(* hour marker and what the call did.                                      *)
rollup_and_cleanup_s3_files(objs, lhrh, log, now, list_ok, readable, put_ok, deletable) ==
    LET cur   == HourOfDay(now)
        prev  == HourOf(now) - 1
        files == MinuteFiles(objs, prev)
        recs  == AllRecords(ReadLines(objs, files, readable))
        body  == [kind |-> "hourly", lines |-> SortedLines(recs, DOMAIN recs)]
        quiet == [ objs |-> objs, lhrh |-> lhrh,
                   log |-> [log EXCEPT !.called = TRUE, !.attempted = FALSE,
                                       !.failed = FALSE, !.wrote = FALSE] ]
        tried == [log EXCEPT !.called = TRUE, !.attempted = TRUE,
                             !.failed = FALSE, !.wrote = FALSE, !.hour = prev]
        done  == [tried EXCEPT !.done_hour = HourOf(now)]
    IN IF lhrh = Unbound THEN quiet
       ELSE IF cur = lhrh THEN quiet
       ELSE IF ~list_ok
            THEN [ objs |-> objs, lhrh |-> lhrh, log |-> [tried EXCEPT !.failed = TRUE] ]
       ELSE IF files = {}
            THEN [ objs |-> objs, lhrh |-> cur, log |-> done ]
       ELSE IF DOMAIN recs # {} /\ ~put_ok
            THEN [ objs |-> objs, lhrh |-> lhrh, log |-> [tried EXCEPT !.failed = TRUE] ]
       ELSE [ objs |-> Remove(IF DOMAIN recs # {}
                              THEN Put(objs, HourlyKey(prev), body) ELSE objs,
                              files \cap deletable),
              lhrh |-> cur,
              log  |-> [done EXCEPT !.wrote = (DOMAIN recs # {})] ]

(* upload_to_s3, line 2104.                                                *)
UploadTime(old, now) == now

(* `if s3_upload_enabled and current_time - last_s3_upload_time >= 60:     *)
(*      upload_to_s3(...); rollup_and_cleanup_s3_files(...)`               *)
RollupDue ==
    s3_upload_enabled /\ current_time - last_s3_upload_time >= FlushInterval

(* The sets of minute files of hour h whose request may return: any of     *)
(* them when storage calls may fail, all of them otherwise.                *)
Returning(h, outcomes) ==
    { F \in SUBSET MinuteFiles(s3_objects, h) :
        FALSE \in outcomes \/ F = MinuteFiles(s3_objects, h) }

(* outcomes: whether a storage call of the rollup may return (TRUE) and    *)
(* whether it may raise (FALSE).                                           *)
S3UpWith(outcomes) ==
    /\ pc = "s3up"
    /\ pc' = "sleep"
    /\ IF RollupDue
       THEN /\ last_s3_upload_time' = UploadTime(last_s3_upload_time, clock)
            /\ \E list_ok \in outcomes, put_ok \in outcomes :
               \E readable \in Returning(HourOf(clock) - 1, outcomes) :
               \E deletable \in Returning(HourOf(clock) - 1, outcomes) :
                 LET r == rollup_and_cleanup_s3_files(s3_objects, last_hourly_rollup_hour,
                              rollup_log, clock, list_ok, readable, put_ok, deletable)
                 IN /\ s3_objects' = r.objs
                    /\ last_hourly_rollup_hour' = r.lhrh
                    /\ rollup_log' = r.log
       ELSE /\ rollup_log' = [rollup_log EXCEPT !.called = FALSE]
            /\ UNCHANGED <<last_s3_upload_time, s3_objects, last_hourly_rollup_hour>>
    /\ UNCHANGED <<clock, iteration, envVars, trackVars, flushVars,
                   recordVars>>

S3Up == S3UpWith(BOOLEAN)

(* The snapshot lists and the tick lengths of SpecRollup: a tick a minute, *)
(* or the next tick an hour later.                                         *)
RollupLists  == { <<>>, << A(None, None) >>, << A(Num(40), Num(-74)), A(None, None) >> }
RollupDeltas == {FlushInterval, SecondsPerHour}

RFetch  == FetchFrom(RollupLists, {0})
RFlush1 == FlushCheck("flush1", "flush2", {TRUE})
RFlush2 == FlushCheck("flush2", "s3up", {TRUE})
RSleep  == SleepFor(RollupDeltas)

InitRollup ==
    /\ clock = StartClock
    /\ pc = "fetch"
    /\ iteration = 0
    /\ run = 1
    /\ s3_upload_enabled = TRUE
    /\ current_aircraft = <<>>
    /\ aircraft_tracking = NoRecords
    /\ pending_aircraft = <<>>
    /\ current_time = 0
    /\ last_minute_upload_time = 0
    /\ s3_objects = NoRecords
    /\ valid_log = {}
    /\ emitted = 0
    /\ url_calls = <<>>
    /\ position_windows = NoWindows
    /\ put_log = <<>>
    /\ last_s3_upload_time = 0
    /\ last_hourly_rollup_hour \in {-1, Unbound}
    /\ rollup_log = NoRollup
    /\ receiver_lat = 0
    /\ receiver_lon = 0
    /\ sector_altitude_records = NoRecords
    /\ reception_file = <<>>
    /\ reception_object = <<>>
    /\ max_slant_range_record = 0
    /\ report_infos = <<>>
    /\ NoLookups
    /\ NoCounts

NextRollup == RFetch \/ RFlush1 \/ RFlush2 \/ S3Up \/ RSleep

SpecRollup == InitRollup /\ [][NextRollup]_vars

----------------------------------------------------------------------------
(* Reception records: the map sector_altitude_records, line 83, its file,  *)
(* and the three operations that write the map.  Distances are in          *)
(* thousandths of a nautical mile, bearings in whole degrees, altitudes in *)
(* feet.                                                                   *)

SectorWidth == 30
SectorCount == 12
ZoneHeight  == 5000

(* A variant without the wrap-around of the last sector.                   *)
get_sector_unwrapped(bearing) == bearing \div SectorWidth

(* get_sector, lines 153-156, and get_altitude_zone, lines 159-164.        *)
get_sector(bearing) == (bearing \div SectorWidth) % SectorCount
get_altitude_zone(altitude_ft) ==
    IF altitude_ft < 0 THEN 0 ELSE altitude_ft \div ZoneHeight

(* f"{slant_dist:.2f}", line 950: two decimals, i.e. a multiple of ten     *)
(* thousandths.                                                            *)
Round2(x) == ((x + 5) \div 10) * 10

(* Line 781: the test that lets a new distance replace a stored one.       *)
AnyDistance(slant_dist, stored) == TRUE
LongerOrEqual(slant_dist, stored) == slant_dist >= stored
Longer(slant_dist, stored) == slant_dist > stored

(* sorted(sector_altitude_records.keys()), line 930: tuples compare by     *)
(* sector first and by altitude zone second.                               *)
RecordAfter(k1, k2) == k1[1] > k2[1] \/ (k1[1] = k2[1] /\ k1[2] > k2[2])
RecordBefore(k1, k2) == k1[1] < k2[1] \/ (k1[1] = k2[1] /\ k1[2] < k2[2])

(* write_reception_records, lines 919-984: one line per key, keys sorted.  *)
RECURSIVE RecordLines(_, _)
RecordLines(recs, keys) ==
    IF keys = {} THEN <<>>
    ELSE LET k == CHOOSE x \in keys : \A y \in keys : x = y \/ RecordBefore(x, y)
         IN << [ sector |-> k[1], zone |-> k[2],
                 bearing |-> recs[k].bearing,
                 slant |-> Round2(recs[k].slant_distance),
                 pos |-> recs[k].positional_distance,
                 alt |-> recs[k].alt_baro,
                 hex |-> recs[k].hex ] >>
            \o RecordLines(recs, keys \ {k})

(* What the two writes of write_reception_records do: whether the write   *)
(* of the local file returns (an error there is caught at line 983, before *)
(* the upload) and whether put_object returns (caught at line 980).        *)
WriteOutcomes == { [file |-> FALSE, put |-> FALSE], [file |-> TRUE, put |-> FALSE],
                   [file |-> TRUE, put |-> TRUE] }
AllWritten == [file |-> TRUE, put |-> TRUE]

(* content, line 964: the rows after the header.                           *)
reception_content(recs) == RecordLines(recs, DOMAIN recs)

(* The local file after the call, lines 964-966.                           *)
write_reception_records(recs, file, write_ok) ==
    IF write_ok.file THEN reception_content(recs) ELSE file

(* The object of the reception bucket after the call, lines 968-981.       *)
upload_reception_records(recs, object, write_ok) ==
    IF write_ok.file /\ s3_upload_enabled /\ write_ok.put
    THEN reception_content(recs) ELSE object

(* update_sector_altitude_records, lines 766-792.                          *)
update_sector_altitude_records(st, info, slant_dist, bearing, write_ok) ==
    LET altitude   == IF info.alt_baro.k = "num" THEN info.alt_baro.v ELSE 0
        record_key == <<get_sector(bearing), get_altitude_zone(altitude)>>
    IN IF \/ record_key \notin DOMAIN st.recs
          \/ Longer(slant_dist, st.recs[record_key].slant_distance)
       THEN LET recs == Put(st.recs, record_key,
                            [ hex |-> info.hex, slant_distance |-> slant_dist,
                              positional_distance |-> info.r_dst,
                              alt_baro |-> info.alt_baro,
                              bearing |-> bearing ])
            IN [st EXCEPT !.recs = recs,
                          !.file = write_reception_records(recs, st.file, write_ok),
                          !.object = upload_reception_records(recs, st.object,
                                                              write_ok)]
       ELSE st

(* Lines 860-861 and 874-875: the number after 'Pos: ' or 'Alt: ' when the *)
(* text there starts with a digit, 0.0 when it is 'N/A', 'None' or starts  *)
(* with a minus sign.                                                      *)
ParsedNumber(text) ==
    IF text.k = "num" /\ text.v >= 0 THEN Num(text.v) ELSE Num(0)

(* load_reception_records, lines 795-916: every parsed line is stored      *)
(* under its key, line 895.                                                *)
RECURSIVE LoadLines(_, _)
LoadLines(recs, lines) ==
    IF lines = <<>> THEN recs
    ELSE LoadLines(Put(recs, <<Head(lines).sector, Head(lines).zone>>,
                       [ hex |-> Head(lines).hex,
                         slant_distance |-> Head(lines).slant,
                         positional_distance |-> ParsedNumber(Head(lines).pos),
                         alt_baro |-> ParsedNumber(Head(lines).alt),
                         bearing |-> Head(lines).bearing ]),
                   Tail(lines))

load_reception_records(recs, file, read_ok) ==
    IF read_ok THEN LoadLines(recs, file) ELSE recs

(* An altitude that is text: dump1090 reports 'ground' for an aircraft on  *)
(* the ground.                                                             *)
Ground == [k |-> "text", v |-> 0]

(* A variant without the test of the receiver position.                    *)
MeasurableAnywhere(info, rlat, rlon) ==
    /\ info.r_dst.k = "num"
    /\ info.alt_baro.k = "num"
    /\ is_valid_position(info.lat, info.lon)

(* The per-aircraft guards of get_longest_slant_range, lines 2210-2212,    *)
(* and of populate_reception_records_from_s3, lines 2293-2298.  An         *)
(* operand that passes the guard and is no number makes                    *)
(* calculate_slant_distance raise, and the bare `except: continue` of line *)
(* 2237 goes on with the next aircraft.                                    *)
Measurable(info, rlat, rlon) ==
    /\ info.r_dst.k = "num"
    /\ info.alt_baro.k = "num"
    /\ is_valid_position(info.lat, info.lon)
    /\ rlat # 0 /\ rlon # 0

Locatable(record, rlat, rlon) ==
    /\ is_valid_position(record.lat, record.lon)
    /\ record.alt_baro.k = "num"
    /\ rlat # 0 /\ rlon # 0

(* get_longest_slant_range, lines 2198-2241, over the tracked aircraft in  *)
(* dictionary order.  info.slant and info.bearing stand for the results of *)
(* calculate_slant_distance and calculate_bearing.                         *)
RECURSIVE get_longest_slant_range(_, _, _, _, _)
get_longest_slant_range(st, infos, rlat, rlon, write_ok) ==
    IF infos = <<>> THEN st
    ELSE LET info == Head(infos)
             s1 == IF Measurable(info, rlat, rlon)
                   THEN LET u == update_sector_altitude_records(st, info, info.slant,
                                                                info.bearing, write_ok)
                        IN [u EXCEPT !.max = IF u.max < info.slant THEN info.slant
                                             ELSE u.max]
                   ELSE st
         IN get_longest_slant_range(s1, Tail(infos), rlat, rlon, write_ok)

(* populate_reception_records_from_s3, lines 2244-2323, over the records   *)
(* of the scanned log objects.                                             *)
RECURSIVE populate_reception_records_from_s3(_, _, _, _, _)
populate_reception_records_from_s3(st, history, rlat, rlon, write_ok) ==
    IF history = <<>> THEN st
    ELSE populate_reception_records_from_s3(
             IF Locatable(Head(history), rlat, rlon)
             THEN update_sector_altitude_records(st, Head(history), Head(history).slant,
                                                 Head(history).bearing, write_ok)
             ELSE st,
             Tail(history), rlat, rlon, write_ok)

(* One tracked aircraft as get_longest_slant_range reads it.               *)
Info(hex, r_dst, alt_baro, lat, lon, bearing, slant) ==
    [ hex |-> hex, r_dst |-> r_dst, alt_baro |-> alt_baro, lat |-> lat,
      lon |-> lon, bearing |-> bearing, slant |-> slant ]

TrackedLists ==
    { <<>>,
      << Info("a", Num(10), Num(3000), Num(40), Num(-74), 45, 10454) >>,
      << Info("a", Num(10), Num(3000), Num(40), Num(-74), 45, 10456) >>,
      << Info("b", Num(20), Num(7000), Num(41), Num(-74), 100, 20000),
         Info("a", Num(9), Num(3000), Num(40), Num(-74), 50, 9000) >>,
      << Info("a", NA, Num(3000), Num(40), Num(-74), 45, 30000) >>,
      << Info("b", Num(12), None, None, None, 45, 12000) >>,
      << Info("a", Num(8), Num(-100), Num(40), Num(-74), 200, 8000) >>,
      << Info("a", Num(10), Ground, Num(40), Num(-74), 45, 10000),
         Info("b", Num(20), Num(7000), Num(41), Num(-74), 100, 20000) >> }

HistoryLists ==
    { <<>>, << Info("b", Num(30), Num(3000), Num(41), Num(-74), 45, 30000) >> }

(* What get_receiver_info() reports; <<0, 0>> also stands for no answer.   *)
ReceiverPositions == { <<0, 0>>, <<41, -74>> }

(* The record file a previous run left behind.                             *)
FileLine(sector, zone, bearing, slant, pos, alt, hex) ==
    [ sector |-> sector, zone |-> zone, bearing |-> bearing, slant |-> slant,
      pos |-> pos, alt |-> alt, hex |-> hex ]

RecordFiles ==
    { <<>>,
      << FileLine(1, 0, 45, 10450, Num(10), Num(3000), "a") >>,
      << FileLine(1, 0, 45, 10460, Num(10), Num(3000), "a"),
         FileLine(3, 1, 100, 15000, NA, Num(7000), "b") >> }

RecordState == [ recs |-> sector_altitude_records, file |-> reception_file,
                 object |-> reception_object,
                 max |-> max_slant_range_record ]

otherVars == <<clock, iteration, envVars, trackVars, flushVars,
               s3_objects, rollupVars>>

(* main, lines 2587-2589: the history scan runs before the receiver        *)
(* position is known.                                                      *)
Populate ==
    /\ pc = "populate"
    /\ pc' = "receiver"
    /\ \E history \in HistoryLists, write_ok \in WriteOutcomes :
         LET r == IF s3_upload_enabled
                  THEN populate_reception_records_from_s3(RecordState, history,
                           receiver_lat, receiver_lon, write_ok)
                  ELSE RecordState
         IN /\ sector_altitude_records' = r.recs
            /\ reception_file' = r.file
            /\ reception_object' = r.object
    /\ UNCHANGED <<receiver_lat, receiver_lon, max_slant_range_record,
                   report_infos, otherVars>>

(* main, lines 2616-2620.                                                  *)
ReceiverInfo ==
    /\ pc = "receiver"
    /\ pc' = "load"
    /\ \E p \in ReceiverPositions :
         /\ receiver_lat' = p[1]
         /\ receiver_lon' = p[2]
    /\ UNCHANGED <<sector_altitude_records, reception_file, reception_object,
                   max_slant_range_record, report_infos, otherVars>>

(* main, line 2630.                                                        *)
Load ==
    /\ pc = "load"
    /\ pc' = "report"
    /\ \E read_ok \in BOOLEAN :
         sector_altitude_records' =
             load_reception_records(sector_altitude_records, reception_file, read_ok)
    /\ UNCHANGED <<receiver_lat, receiver_lon, reception_file, reception_object,
                   max_slant_range_record, report_infos, otherVars>>

(* main, line 2743: the report of a tick.                                  *)
Report ==
    /\ pc = "report"
    /\ iteration < MaxTicks
    /\ iteration' = iteration + 1
    /\ \E infos \in TrackedLists, write_ok \in WriteOutcomes :
         LET r == get_longest_slant_range(RecordState, infos, receiver_lat,
                                          receiver_lon, write_ok)
         IN /\ report_infos' = infos
            /\ sector_altitude_records' = r.recs
            /\ reception_file' = r.file
            /\ reception_object' = r.object
            /\ max_slant_range_record' = r.max
    /\ UNCHANGED <<pc, clock, envVars, trackVars, flushVars,
                   s3_objects, rollupVars, receiver_lat, receiver_lon>>

InitRecords ==
    /\ clock = StartClock
    /\ pc = "populate"
    /\ iteration = 0
    /\ run = 1
    /\ s3_upload_enabled \in BOOLEAN
    /\ current_aircraft = <<>>
    /\ aircraft_tracking = NoRecords
    /\ pending_aircraft = <<>>
    /\ current_time = 0
    /\ last_minute_upload_time = 0
    /\ s3_objects = NoRecords
    /\ valid_log = {}
    /\ emitted = 0
    /\ url_calls = <<>>
    /\ position_windows = NoWindows
    /\ put_log = <<>>
    /\ last_s3_upload_time = 0
    /\ last_hourly_rollup_hour = -1
    /\ rollup_log = NoRollup
    /\ receiver_lat = 0
    /\ receiver_lon = 0
    /\ sector_altitude_records = NoRecords
    /\ reception_file \in RecordFiles
    /\ reception_object = <<>>
    /\ max_slant_range_record = 0
    /\ report_infos = <<>>
    /\ NoLookups
    /\ NoCounts

NextRecords == Populate \/ ReceiverInfo \/ Load \/ Report

SpecRecords == InitRecords /\ [][NextRecords]_vars

----------------------------------------------------------------------------
(* Identity and telemetry fields of update_aircraft_tracking, lines        *)
(* 391-445 and 495-559.  A text field of a snapshot is a string; two       *)
(* strings stand for a key that is not in the dictionary and for None.     *)

Absent == "<absent>"
Null   == "<null>"
NAText == "N/A"
Empty  == ""
Missing == [k |-> "missing", v |-> 0]     \* a numeric key that is absent

SecondsPerDay      == 86400
CacheFreshDays     == 7

(* Python truth of a text value, dict.get(key, default), and the test      *)
(* `x in (None, 'N/A', '')` of lines 419-432.                              *)
Truthy(x) == x \notin {Absent, Null, Empty}
GetText(x, default) == IF x = Absent THEN default ELSE x
Unset(x) == x \in {Null, NAText, Empty}

(* str.strip() on the callsigns of the snapshot pool.                      *)
Strip(s) == IF s = "  " THEN Empty ELSE IF s = "UAL1 " THEN "UAL1" ELSE s

(* aircraft.get(f) and aircraft.get(f, default) for a numeric field.       *)
GetNum(x) == IF x = Missing THEN None ELSE x
GetNumOr(x, default) == IF x = Missing THEN default ELSE x

NoHistory == [flight |-> Absent, squawk |-> Absent, r |-> Absent, t |-> Absent]
HistoryOf(hex) ==
    IF hex \in DOMAIN history_cache THEN history_cache[hex] ELSE NoHistory

NotFound == [found |-> FALSE, registration |-> Absent, type |-> Absent]

(* What the network does during one call of update_aircraft_tracking:      *)
(* whether the download of the type database, the read and the write of    *)
(* the per-hex cache and the request to the static database succeed.       *)
Net(bulk_ok, get_ok, put_ok, static_ok) ==
    [bulk_ok |-> bulk_ok, get_ok |-> get_ok, put_ok |-> put_ok,
     static_ok |-> static_ok]

(* _load_aircraft_type_database_from_s3, lines 271-291: one download per   *)
(* run; a failed download leaves an empty database.                        *)
LoadedTypeDb(st, net) ==
    IF st.tdb.loaded THEN st
    ELSE [st EXCEPT !.tdb = [loaded |-> TRUE,
                             db |-> IF net.bulk_ok THEN type_db_object
                                    ELSE NoRecords],
                    !.log = Append(st.log, [tier |-> "bulk", hex |-> NoHex,
                                             ok |-> net.bulk_ok])]

(* get_aircraft_type_from_s3_db, lines 293-311; entry.get(f) is None for a *)
(* field the entry lacks.                                                  *)
get_aircraft_type_from_s3_db(st, hex_code) ==
    IF ~s3_upload_enabled THEN NotFound
    ELSE IF hex_code \in DOMAIN st.tdb.db
         THEN [found |-> TRUE,
               registration |-> GetText(st.tdb.db[hex_code].registration, Null),
               type |-> GetText(st.tdb.db[hex_code].type, Null)]
         ELSE NotFound

(* An object of the per-hex cache bucket.  body tells whether json.loads   *)
(* accepts it; timestamp is Num(seconds) for a text strptime accepts, NA   *)
(* for one it rejects and None for a missing or empty one.                 *)
Cached(registration, aircraft_type, timestamp) ==
    [ registration |-> registration, type |-> aircraft_type,
      timestamp |-> timestamp, body |-> "object" ]

Undecodable ==
    [ registration |-> Absent, type |-> Absent, timestamp |-> None,
      body |-> "undecodable" ]

(* A variant that still accepts an entry on its seventh day.               *)
FreshWithinWeek(entry, now) ==
    /\ entry.body = "object"
    /\ entry.timestamp.k = "num"
    /\ (now - entry.timestamp.v) \div SecondsPerDay <= CacheFreshDays

(* get_icao_cache_from_s3, lines 2332-2340: json.loads raises on an        *)
(* undecodable body, strptime on a text it cannot parse (both caught at    *)
(* line 2347); `if timestamp_str:` skips a missing or empty timestamp;     *)
(* timedelta.days is the whole number of days, rounded down.               *)
Fresh(entry, now) ==
    /\ entry.body = "object"
    /\ entry.timestamp.k = "num"
    /\ (now - entry.timestamp.v) \div SecondsPerDay < CacheFreshDays

get_icao_cache_from_s3(st, hex_code, now, net) ==
    IF s3_upload_enabled /\ net.get_ok /\ hex_code \in DOMAIN st.icache
       /\ Fresh(st.icache[hex_code], now)
    THEN [found |-> TRUE,
          registration |-> st.icache[hex_code].registration,
          type |-> st.icache[hex_code].type]
    ELSE NotFound

(* get_db_info, lines 314-350: the answer of the first call for a hex is   *)
(* kept in db_cache, an empty answer too.                                  *)
NoInfo == [r |-> Absent, t |-> Absent]

get_db_info(st, hex_code, net) ==
    IF hex_code \in DOMAIN st.dbc THEN st.dbc[hex_code]
    ELSE IF net.static_ok /\ hex_code \in DOMAIN static_db THEN static_db[hex_code]
    ELSE NoInfo

(* set_icao_cache_to_s3, lines 2351-2370.                                  *)
set_icao_cache_to_s3(cache, hex_code, registration, aircraft_type, now, net) ==
    IF s3_upload_enabled /\ net.put_ok
    THEN Put(cache, hex_code, Cached(registration, aircraft_type, Num(now)))
    ELSE cache

(* The element of a one-element set: names an intermediate result.        *)
Only(S) == CHOOSE x \in S : TRUE

(* Lines 392-445: the fields of a hex seen for the first time, tier by     *)
(* tier.  s holds the local variables flight, squawk, registration (r),    *)
(* aircraft_type (t) and what the lookups have left behind (st).           *)

(* Lines 392-393 and 404-405: the live snapshot.                           *)
LiveTier(st0, ac) ==
    [ flight |-> IF Truthy(ac.flight) THEN Strip(ac.flight) ELSE NAText,
      squawk |-> GetText(ac.squawk, NAText),
      r      |-> GetText(ac.r, NAText),
      t      |-> GetText(ac.t, NAText),
      st     |-> st0 ]

(* Lines 396-401 and 408-413: the history cache.                           *)
HistoryTier(s, ac) ==
    LET hist == HistoryOf(ac.hex)
    IN [ s EXCEPT
           !.flight = IF @ = NAText /\ hist.flight # Absent THEN hist.flight ELSE @,
           !.squawk = IF @ = NAText /\ hist.squawk # Absent THEN hist.squawk ELSE @,
           !.r = IF @ = NAText /\ hist.r # Absent THEN hist.r ELSE @,
           !.t = IF @ = NAText /\ hist.t # Absent THEN hist.t ELSE @ ]

(* Lines 295-299: the first lookup downloads the bulk type database.       *)
BulkLoad(s, net) ==
    IF s3_upload_enabled THEN [s EXCEPT !.st = LoadedTypeDb(s.st, net)] ELSE s

(* Lines 416-421: the bulk type database.                                  *)
BulkTier(s, ac) ==
    LET bulk == get_aircraft_type_from_s3_db(s.st, ac.hex)
    IN [ s EXCEPT
           !.r = IF bulk.found /\ Unset(@) THEN bulk.registration ELSE @,
           !.t = IF bulk.found /\ Unset(@) THEN bulk.type ELSE @ ]

(* Lines 425-433: the per-hex cache, asked on every first sight.           *)
CacheTier(s, ac, now, net) ==
    LET cached == get_icao_cache_from_s3(s.st, ac.hex, now, net)
    IN [ s EXCEPT
           !.r = IF cached.found /\ Unset(@) THEN GetText(cached.registration, @)
                 ELSE @,
           !.t = IF cached.found /\ Unset(@) THEN GetText(cached.type, @) ELSE @,
           !.st = IF s3_upload_enabled
                  THEN [s.st EXCEPT !.log = Append(s.st.log,
                                         [tier |-> "cache", hex |-> ac.hex,
                                          ok |-> net.get_ok,
                                          hit |-> cached.found])]
                  ELSE s.st ]

(* Lines 436-441: the static database, asked while a field is 'N/A'.       *)
StaticTier(s, ac, net) ==
    LET asked   == s.r = NAText \/ s.t = NAText
        db_info == IF asked THEN get_db_info(s.st, ac.hex, net) ELSE NoInfo
    IN [ s EXCEPT
           !.r = IF @ = NAText /\ db_info.r # Absent THEN db_info.r ELSE @,
           !.t = IF @ = NAText /\ db_info.t # Absent THEN db_info.t ELSE @,
           !.st = IF asked /\ ac.hex \notin DOMAIN s.st.dbc
                  THEN [s.st EXCEPT
                          !.dbc = Put(s.st.dbc, ac.hex, db_info),
                          !.log = Append(s.st.log,
                                         [tier |-> "static", hex |-> ac.hex,
                                          ok |-> net.static_ok])]
                  ELSE s.st ]

(* Lines 444-445: the write to the per-hex cache; cache_log keeps what was *)
(* written and whether the cache held a fresh entry for the hex.           *)
WriteBack(s, ac, now, net) ==
    LET held == ac.hex \in DOMAIN s.st.icache /\ Fresh(s.st.icache[ac.hex], now)
    IN IF s.r # NAText \/ s.t # NAText
       THEN [ s EXCEPT !.st =
                [ s.st EXCEPT
                    !.icache = set_icao_cache_to_s3(s.st.icache, ac.hex, s.r, s.t,
                                                    now, net),
                    !.clog = IF s3_upload_enabled
                             THEN Append(s.st.clog,
                                         [hex |-> ac.hex, registration |-> s.r,
                                          type |-> s.t, held |-> held,
                                          stored |-> net.put_ok])
                             ELSE s.st.clog ] ]
       ELSE s

(* Lines 464-467: 'N/A' is stored as None, except for the callsign.        *)
StoredFields(s) ==
    [ flight |-> s.flight,
      squawk |-> IF s.squawk = NAText THEN Null ELSE s.squawk,
      registration |-> IF s.r = NAText THEN Null ELSE s.r,
      type |-> IF s.t = NAText THEN Null ELSE s.t,
      st |-> s.st ]

Resolved(st0, ac, now, net) ==
    Only({ StoredFields(s7) :
      s7 \in { WriteBack(s6, ac, now, net) :
        s6 \in { StaticTier(s5, ac, net) :
          s5 \in { CacheTier(s4, ac, now, net) :
            s4 \in { BulkTier(s3, ac) :
              s3 \in { BulkLoad(s2, net) :
                s2 \in { HistoryTier(s1, ac) :
                  s1 \in { LiveTier(st0, ac) } } } } } } } })

(* Lines 447-456 and 548-558: r_dst of the snapshot, or the distance       *)
(* computed from a valid position when the receiver position is known;     *)
(* ac.dist stands for round(calculate_distance(...), 2).                   *)
Distance(ac) ==
    LET distance == GetNumOr(ac.r_dst, NA) IN
    IF distance \in {NA, None}
       /\ is_valid_position(ac.lat, ac.lon)
       /\ receiver_lat # 0 /\ receiver_lon # 0
    THEN Num(ac.dist)
    ELSE distance

(* Lines 458-490: the entry of a new hex with all its modelled fields.     *)
NewEntryFull(ac, now, res) ==
    [ hex |-> ac.hex,
      first_seen |-> now,
      last_seen |-> now,
      lat |-> NoneIfNA(ac.lat),
      lon |-> NoneIfNA(ac.lon),
      position_timestamp |-> now,
      data_quality |-> DQ_NULL,
      flight |-> res.flight,
      registration |-> res.registration,
      type |-> res.type,
      squawk |-> res.squawk,
      alt_baro |-> NoneIfNA(GetNum(ac.alt_baro)),
      r_dst |-> NoneIfNA(Distance(ac)) ]

(* Lines 497-503: whether the update of the callsign raises: the stored    *)
(* callsign is 'N/A' and the snapshot has 'flight': None, so               *)
(* aircraft.get('flight', '') is None and has no strip().                  *)
FlightRaises(info, ac) == ~Truthy(ac.flight) /\ info.flight = NAText /\ ac.flight = Null

(* A variant that takes the callsign of every snapshot, as the insert      *)
(* does at line 392.                                                       *)
UpdatedFlightUnguarded(info, ac) ==
    IF Truthy(ac.flight) THEN Strip(ac.flight) ELSE NAText

(* Lines 497-503: the callsign after an update.                            *)
UpdatedFlight(info, ac) ==
    IF Truthy(ac.flight)
    THEN IF Strip(ac.flight) # Empty THEN Strip(ac.flight) ELSE info.flight
    ELSE IF info.flight = NAText /\ Strip(GetText(ac.flight, Empty)) # Empty
         THEN Strip(ac.flight)
         ELSE info.flight

(* Lines 504-521 and 548-559: the other fields after an update.            *)
UpdatedFields(info, ac) ==
    [ info EXCEPT !.flight = UpdatedFlight(info, ac),
                  !.registration = GetText(ac.r, info.registration),
                  !.type = GetText(ac.t, info.type),
                  !.squawk = GetText(ac.squawk, info.squawk),
                  !.alt_baro = GetNumOr(ac.alt_baro, info.alt_baro),
                  !.r_dst = Distance(ac) ]

(* Lines 484-487 and 540-546: whether the snapshot counts as a position    *)
(* report.                                                                 *)
CountsOnInsert(ac) == is_valid_position(ac.lat, ac.lon)

(* A variant that counts every valid position of an update.                *)
CountsEveryValidUpdate(info, ac) == is_valid_position(ac.lat, ac.lon)

CountsOnUpdate(info, ac) ==
    is_valid_position(ac.lat, ac.lon) /\ (info.lat # ac.lat \/ info.lon # ac.lon)

(* A variant that never prunes.                                            *)
KeptAll(list, timestamp, span) == Append(list, timestamp)

(* track_position_for_stats, lines 353-372: the timestamp is appended to   *)
(* each list, then each list keeps what is no older than its span.         *)
Kept(list, timestamp, span) ==
    SelectSeq(Append(list, timestamp), LAMBDA t : t >= timestamp - span)

track_position_for_stats(w, timestamp) ==
    [ last_minute |-> Kept(w.last_minute, timestamp, 60),
      last_10min  |-> Kept(w.last_10min, timestamp, 600),
      last_hour   |-> Kept(w.last_hour, timestamp, SecondsPerHour),
      last_day    |-> Kept(w.last_day, timestamp, SecondsPerDay) ]

(* Lines 486-487 and 545-546: the tally and the four lists move together.  *)
Counted(st, counts, now) ==
    IF counts THEN [ st EXCEPT !.count = @ + 1,
                               !.windows = track_position_for_stats(@, now) ]
    ELSE st

(* Lines 458-490: the insert of a hex that is not tracked.                 *)
InsertedWith(st, ac, now, res) ==
    LET entry == NewEntryFull(ac, now, res)
    IN Counted([ res.st EXCEPT !.trk = Put(st.trk, ac.hex, entry),
                               !.pend = Append(st.pend, entry) ],
               CountsOnInsert(ac), now)

(* A variant that flags every difference, a squawk replaced by None too.   *)
squawk_differs(old_squawk, new_squawk) == old_squawk # new_squawk

(* Lines 504-513: old_squawk is the stored squawk before line 509 assigns  *)
(* it, new_squawk the stored one after.                                    *)
squawk_has_changed(old_squawk, new_squawk) ==
    new_squawk # Null /\ old_squawk # new_squawk

(* Lines 561-564: output_record, the copy of the entry with the flag.      *)
OutputRecord(info, fields, ac, now) ==
    Put(UpdateRecord(fields, ac, now), "squawk_changed",
        squawk_has_changed(info.squawk, fields.squawk))

(* Lines 493-587: the update of a tracked hex, fields being the entry      *)
(* after lines 493-559.                                                    *)
UpdatedWith(st, ac, now, info, fields) ==
    Counted([ st EXCEPT !.trk = Put(st.trk, ac.hex, UpdatedEntry(fields, ac, now)),
                        !.pend = Append(st.pend, OutputRecord(info, fields, ac, now)) ],
            CountsOnUpdate(info, ac), now)

(* One iteration of the loop over current_aircraft, lines 383-587, with    *)
(* the lookups; st.raised records an exception that leaves the function.   *)
ProcessOneFull(st, ac, now, net) ==
    IF st.raised \/ ac.hex = NoHex THEN st
    ELSE IF ac.hex \notin DOMAIN st.trk
    THEN Only({ InsertedWith(st, ac, now, res) :
                  res \in { Resolved(st, ac, now, net) } })
    ELSE IF FlightRaises(st.trk[ac.hex], ac)
         THEN [ st EXCEPT !.trk = Put(st.trk, ac.hex,
                                      [st.trk[ac.hex] EXCEPT !.last_seen = now]),
                          !.raised = TRUE ]
         ELSE Only({ UpdatedWith(st, ac, now, st.trk[ac.hex], fields) :
                       fields \in { UpdatedFields(st.trk[ac.hex], ac) } })

RECURSIVE ProcessAllFull(_, _, _, _)
ProcessAllFull(st, acs, now, net) ==
    IF acs = <<>> THEN st
    ELSE Only({ ProcessAllFull(s, Tail(acs), now, net) :
                  s \in { ProcessOneFull(st, Head(acs), now, net) } })

(* update_aircraft_tracking, lines 375-613; the sweep is not reached when  *)
(* the loop raises.                                                        *)
update_aircraft_tracking_full(st, acs, now, net) ==
    Only({ IF s.raised THEN s
           ELSE [s EXCEPT !.trk = Sweep(s.trk, now),
                          !.urls = to_save_urls(s.trk, now)] :
             s \in { ProcessAllFull(st, acs, now, net) } })

(* The snapshots of SpecFields.  A position is a valid pair, a lone        *)
(* latitude or nothing; dist is the distance computed for the position.    *)
Snapshot(hex, lat, lon, flight, r, t, alt_baro, r_dst) ==
    [ hex |-> hex, lat |-> lat, lon |-> lon, flight |-> flight, r |-> r,
      t |-> t, squawk |-> Absent, alt_baro |-> alt_baro, r_dst |-> r_dst,
      dist |-> 12 ]

Known   == << Snapshot("a", Num(40), Num(-74), "UAL1 ", "N1", "B738", Num(35000), Missing) >>
Nulls   == << Snapshot("a", None, None, Null, Null, Absent, None, Missing) >>
Bare    == << Snapshot("a", None, None, Absent, Absent, Absent, Missing, Missing) >>
Blank   == << Snapshot("a", Num(40), Num(-73), "  ", Empty, Absent, Num(-100), Num(10)) >>
Other   == << Snapshot("b", Num(41), None, Empty, Absent, Absent, Missing, Missing) >>

(* The bare snapshot with a transponder code, and with 'squawk': None.     *)
Squawking == << [ Bare[1] EXCEPT !.squawk = "1200" ] >>
Silenced  == << [ Bare[1] EXCEPT !.squawk = Null ] >>

AllOk       == Net(TRUE, TRUE, TRUE, TRUE)
StorageDown == Net(FALSE, FALSE, FALSE, TRUE)
PutFails    == Net(TRUE, TRUE, FALSE, TRUE)
StaticDown  == Net(TRUE, TRUE, TRUE, FALSE)

(* What one tick fetches and how the network behaves during it.            *)
TickInputs ==
    { [acs |-> l, net |-> AllOk] :
        l \in {<<>>, Known, Nulls, Bare, Blank, Other, Squawking, Silenced} }
    \cup { [acs |-> Bare, net |-> n] : n \in {StorageDown, PutFails, StaticDown} }

(* What a run starts with: the history files, the type database object,    *)
(* the per-hex cache bucket, the static database, whether S3 is enabled    *)
(* and the receiver position.                                              *)
Setting(hist, tdb, cache, static, s3, rlat, rlon) ==
    [ hist |-> hist, tdb |-> tdb, cache |-> cache, static |-> static,
      s3 |-> s3, rlat |-> rlat, rlon |-> rlon ]

OnlyA(entry) == [ h \in {"a"} |-> entry ]
AandB(a, b)  == [ h \in {"a", "b"} |-> IF h = "a" THEN a ELSE b ]

Settings ==
    { Setting(NoRecords, NoRecords, NoRecords, NoRecords, TRUE, 41, -74),
      Setting(NoRecords, NoRecords, NoRecords, NoRecords, FALSE, 0, 0),
      Setting(NoRecords,
              OnlyA([registration |-> Absent, type |-> "B738"]),
              NoRecords,
              OnlyA([r |-> "N123", t |-> "B738"]), TRUE, 41, -74),
      Setting(NoRecords, NoRecords,
              OnlyA(Cached("N9", "A320", Num(StartClock - SecondsPerHour))),
              NoRecords, TRUE, 41, -74),
      Setting(OnlyA([flight |-> "DAL2", squawk |-> Absent, r |-> "N7", t |-> Absent]),
              NoRecords,
              OnlyA(Cached("N9", "A320",
                           Num(StartClock - (CacheFreshDays + 1) * SecondsPerDay))),
              OnlyA([r |-> "N123", t |-> Absent]), TRUE, 41, -74),
      Setting(NoRecords, NoRecords,
              AandB(Cached("N9", "A320",
                           Num(StartClock - CacheFreshDays * SecondsPerDay)),
                    Cached("N8", "B77W",
                           Num(StartClock - CacheFreshDays * SecondsPerDay + 1))),
              OnlyA([r |-> "N123", t |-> Absent]), TRUE, 41, -74),
      Setting(NoRecords, NoRecords,
              AandB(Cached("N9", "A320", None), Cached("N8", "B77W", NA)),
              NoRecords, TRUE, 41, -74),
      Setting(NoRecords, NoRecords, OnlyA(Undecodable),
              OnlyA([r |-> "N123", t |-> Absent]), TRUE, 41, -74) }

TrackState ==
    [ trk |-> aircraft_tracking, pend |-> pending_aircraft,
      tdb |-> aircraft_type_db, icache |-> icao_cache, dbc |-> db_cache,
      log |-> lookup_log, clog |-> cache_log, count |-> running_position_count,
      windows |-> position_windows, urls |-> <<>>, raised |-> FALSE ]

(* main, lines 2684-2698, with every field of the snapshots.  An exception *)
(* other than KeyboardInterrupt leaves the loop (lines 2676 and 3009).     *)
FFetch ==
    /\ pc = "fetch"
    /\ iteration < MaxTicks
    /\ iteration' = iteration + 1
    /\ \E input \in TickInputs :
         /\ current_aircraft' = input.acs
         /\ IF Received(input.acs)
            THEN \E r \in { update_aircraft_tracking_full(TrackState, input.acs,
                                                          clock, input.net) } :
                    /\ aircraft_tracking' = r.trk
                    /\ pending_aircraft' = r.pend
                    /\ emitted' = emitted + (Len(r.pend) - Len(pending_aircraft))
                    /\ valid_log' = valid_log \cup ValidSeen(input.acs, clock)
                    /\ url_calls' = Handed(url_calls, r.urls)
                    /\ aircraft_type_db' = r.tdb
                    /\ icao_cache' = r.icache
                    /\ db_cache' = r.dbc
                    /\ lookup_log' = r.log
                    /\ cache_log' = r.clog
                    /\ running_position_count' = r.count
                    /\ position_windows' = r.windows
                    /\ current_time' = IF r.raised THEN current_time ELSE clock
                    /\ pc' = IF r.raised THEN "raised" ELSE "flush1"
            ELSE /\ UNCHANGED <<aircraft_tracking, pending_aircraft, emitted,
                               valid_log, current_time, url_calls,
                               aircraft_type_db,
                               icao_cache, db_cache, lookup_log, cache_log,
                               running_position_count, position_windows>>
                 /\ pc' = "sleep"
    /\ UNCHANGED <<clock, run, s3_upload_enabled, last_minute_upload_time, s3_objects,
                   put_log, rollupVars, recordVars, history_cache,
                   type_db_object, static_db, runtime_files,
                   position_reports_24h>>

FFlush1 == FlushCheck("flush1", "flush2", {TRUE})
FFlush2 == FlushCheck("flush2", "sleep", {TRUE})
FSleep  == SleepFor({TIMEOUT_SECONDS + 1})

InitFields ==
    /\ clock = StartClock
    /\ pc = "fetch"
    /\ iteration = 0
    /\ run = 1
    /\ current_aircraft = <<>>
    /\ aircraft_tracking = NoRecords
    /\ pending_aircraft = <<>>
    /\ current_time = 0
    /\ last_minute_upload_time = 0
    /\ s3_objects = NoRecords
    /\ valid_log = {}
    /\ emitted = 0
    /\ url_calls = <<>>
    /\ position_windows = NoWindows
    /\ put_log = <<>>
    /\ last_s3_upload_time = 0
    /\ last_hourly_rollup_hour = -1
    /\ rollup_log = NoRollup
    /\ sector_altitude_records = NoRecords
    /\ reception_file = <<>>
    /\ reception_object = <<>>
    /\ max_slant_range_record = 0
    /\ report_infos = <<>>
    /\ \E s \in Settings :
         /\ s3_upload_enabled = s.s3
         /\ receiver_lat = s.rlat
         /\ receiver_lon = s.rlon
         /\ history_cache = s.hist
         /\ type_db_object = s.tdb
         /\ icao_cache = s.cache
         /\ static_db = s.static
    /\ aircraft_type_db = [loaded |-> FALSE, db |-> NoRecords]
    /\ db_cache = NoRecords
    /\ lookup_log = <<>>
    /\ cache_log = <<>>
    /\ NoCounts

NextFields == FFetch \/ FFlush1 \/ FFlush2 \/ FSleep

SpecFields == InitFields /\ [][NextFields]_vars

----------------------------------------------------------------------------
(* The start of main(), lines 2584-2646, followed by the poll loop.        *)

(* Lines 1836-1856 and 1494-1514: a line counts when it has a valid        *)
(* position and its Last_Seen is within the past 24 hours.                 *)
CountsAsPosition(line, now) ==
    /\ is_valid_position(line.Latitude, line.Longitude)
    /\ line.Last_Seen >= now - HoursPerDay * SecondsPerHour

RECURSIVE CountLines(_, _)
CountLines(lines, now) ==
    IF lines = <<>> THEN 0
    ELSE (IF CountsAsPosition(Head(lines), now) THEN 1 ELSE 0)
         + CountLines(Tail(lines), now)

RECURSIVE CountFiles(_, _)
CountFiles(files, now) ==
    IF files = <<>> THEN 0
    ELSE CountLines(Head(files), now) + CountFiles(Tail(files), now)

RECURSIVE CountObjects(_, _, _)
CountObjects(objs, keys, now) ==
    IF keys = {} THEN 0
    ELSE LET k == CHOOSE x \in keys : TRUE
         IN CountLines(objs[k].lines, now) + CountObjects(objs, keys \ {k}, now)

(* load_current_hour_from_s3, lines 1789-1873: the value of the local      *)
(* total_positions when the function returns.  Keys that end in '00.json'  *)
(* are left out (line 1814).                                               *)
load_current_hour_from_s3(objs, now, list_ok) ==
    IF s3_upload_enabled /\ list_ok
    THEN CountObjects(objs, MinuteFiles(objs, HourOf(now)), now)
    ELSE 0

(* count_position_reports_24h, lines 1471-1529, over the JSON files of the *)
(* runtime directory.                                                      *)
count_position_reports_24h(files, now) == CountFiles(files, now)

StoredLine(hex, seen, lat, lon) ==
    [ ICAO |-> hex, Last_Seen |-> seen, First_Seen |-> seen, Latitude |-> lat,
      Longitude |-> lon, Position_Timestamp |-> seen, Data_Quality |-> DQ_GPS ]

(* The process starts five minutes into the hour.                          *)
StartupClock == StartClock + 5 * 60

(* What an earlier run left in the bucket and in the runtime directory.    *)
Buckets ==
    { NoRecords,
      [ k \in {MinuteKey(StartClock + 60)} |->
          [ kind |-> "minute",
            lines |-> << StoredLine("a", StartClock + 60, Num(40), Num(-74)),
                         StoredLine("b", StartClock + 60, None, None) >> ] ],
      [ k \in {MinuteKey(StartClock + 60), MinuteKey(StartClock + 120)} |->
          [ kind |-> "minute",
            lines |-> << StoredLine("a", StartClock + k.mm * 60,
                                    Num(40), Num(-74)) >> ] ] }

RuntimeFiles ==
    { <<>>,
      << << StoredLine("a", StartClock + 60, Num(40), Num(-74)) >> >> }

(* main, line 2586: the result of the reconciliation is a local variable   *)
(* of load_current_hour_from_s3; nothing of it is kept.                    *)
Reconcile ==
    /\ pc = "reconcile"
    /\ pc' = "count"
    /\ \E list_ok \in BOOLEAN :
         LET total_positions == load_current_hour_from_s3(s3_objects, clock, list_ok)
         IN UNCHANGED <<position_reports_24h, running_position_count>>
    /\ UNCHANGED <<clock, iteration, run, s3_upload_enabled, lookupVars,
                   runtime_files,
                   trackVars, flushVars, s3_objects, rollupVars, recordVars>>

(* main, lines 2642-2646.                                                  *)
Count ==
    /\ pc = "count"
    /\ pc' = "fetch"
    /\ position_reports_24h' = count_position_reports_24h(runtime_files, clock)
    /\ running_position_count' = position_reports_24h'
    /\ UNCHANGED <<clock, iteration, run, s3_upload_enabled, lookupVars,
                   runtime_files,
                   trackVars, flushVars, s3_objects, rollupVars, recordVars>>

InitStartup ==
    /\ clock = StartupClock
    /\ pc = "reconcile"
    /\ iteration = 0
    /\ run = 1
    /\ s3_upload_enabled \in BOOLEAN
    /\ current_aircraft = <<>>
    /\ aircraft_tracking = NoRecords
    /\ pending_aircraft = <<>>
    /\ current_time = 0
    /\ last_minute_upload_time = 0
    /\ s3_objects \in Buckets
    /\ valid_log = {}
    /\ emitted = 0
    /\ url_calls = <<>>
    /\ position_windows = NoWindows
    /\ put_log = <<>>
    /\ last_s3_upload_time = 0
    /\ last_hourly_rollup_hour = -1
    /\ rollup_log = NoRollup
    /\ receiver_lat = 41
    /\ receiver_lon = -74
    /\ sector_altitude_records = NoRecords
    /\ reception_file = <<>>
    /\ reception_object = <<>>
    /\ max_slant_range_record = 0
    /\ report_infos = <<>>
    /\ NoLookups
    /\ runtime_files \in RuntimeFiles
    /\ position_reports_24h = 0
    /\ running_position_count = 0

NextStartup == Reconcile \/ Count \/ FFetch \/ FFlush1 \/ FFlush2 \/ FSleep

SpecStartup == InitStartup /\ [][NextStartup]_vars

----------------------------------------------------------------------------
(* Properties of the poll loop.                                            *)

HexesOf(acs) == { acs[i].hex : i \in DOMAIN acs } \ {NoHex}

DistinctHexes(acs) ==
    \A i, j \in DOMAIN acs :
        (i # j /\ acs[i].hex # NoHex) => acs[i].hex # acs[j].hex

(* The step of a tick in which update_aircraft_tracking ran.               *)
TrackStep == pc = "fetch" /\ pc' = "flush1"

(* Indices of the records that step appended.                              *)
AppendedIdx == (Len(pending_aircraft) + 1) .. Len(pending_aircraft')

(* C1: the buffer is emptied by a flush check only if the minute object    *)
(* was stored; a failed put leaves the buffered records in place.          *)
C1_ClearedOnlyIfStored ==
    [][ (pc \in {"flush1", "flush2"} /\ pending_aircraft # <<>>
         /\ pending_aircraft' # pending_aircraft)
        => put_log' # put_log ]_vars

C3_EvictedThenReinserted ==
    [][ (pc = "fetch" /\ pc' # "fetch")
        => /\ \A h \in DOMAIN aircraft_tracking' :
                clock - aircraft_tracking'[h].last_seen <= TIMEOUT_SECONDS
           /\ \A h \in DOMAIN aircraft_tracking \cap DOMAIN aircraft_tracking' :
                (clock - aircraft_tracking[h].last_seen > TIMEOUT_SECONDS
                 /\ h \in HexesOf(current_aircraft'))
                => aircraft_tracking'[h].first_seen = clock
      ]_vars

(* C7: a record is tagged 'GPS approx' only if the snapshot has no valid   *)
(* position and a snapshot of the same aircraft at most 5 s earlier        *)
(* carried a valid pair, whose coordinates the record then has.            *)
C7_ApproxFromRecentValidPair ==
    [][ TrackStep
        => \A i \in AppendedIdx :
             pending_aircraft'[i].data_quality = DQ_APPROX
             => /\ \E j \in DOMAIN current_aircraft' :
                     /\ current_aircraft'[j].hex = pending_aircraft'[i].hex
                     /\ ~is_valid_position(current_aircraft'[j].lat,
                                           current_aircraft'[j].lon)
                /\ \E v \in valid_log' :
                     /\ v.hex = pending_aircraft'[i].hex
                     /\ clock - v.ts <= BackfillWindow
                     /\ pending_aircraft'[i].lat = v.lat
                     /\ pending_aircraft'[i].lon = v.lon
      ]_vars

RECURSIVE SumN(_)
SumN(log) == IF log = <<>> THEN 0 ELSE Head(log).n + SumN(Tail(log))

(* C10: at most one minute object is written per tick, two successful      *)
(* flushes are at least 60 s apart, and no buffered record is written to   *)
(* more than one minute object.                                            *)
C10_OneFlushPerMinute ==
    /\ \A i, j \in DOMAIN put_log :
         i < j => /\ put_log[i].tick # put_log[j].tick
                  /\ put_log[j].time - put_log[i].time >= FlushInterval
    /\ SumN(put_log) + Len(pending_aircraft) <= emitted

(* C10 witness: two minute objects have been stored, the buffer is empty   *)
(* and the second flush check of the tick is still to come.                *)
C10_Witness ==
    /\ Len(put_log) >= 2
    /\ pc = "flush2"
    /\ put_log[Len(put_log)].tick = iteration

----------------------------------------------------------------------------
(* The hourly rollup (SpecRollup).                                         *)

RollupStep == pc = "s3up" /\ pc' = "sleep"

(* The minute objects of hour h: what the flushes wrote under its keys.    *)
MinuteObjectsOf(objs, h) ==
    { k \in DOMAIN objs : k.hour = h /\ objs[k].kind = "minute" }

C8_RollupOncePerHour ==
    [][ (RollupStep /\ RollupDue) =>
        IF rollup_log.done_hour = HourOf(clock)
        THEN ~rollup_log'.attempted /\ s3_objects' = s3_objects
        ELSE rollup_log'.attempted /\ rollup_log'.hour = HourOf(clock) - 1 ]_vars

----------------------------------------------------------------------------
(* Reception records (SpecRecords).                                        *)

(* C6: no step removes a key of sector_altitude_records or lowers its      *)
(* slant_distance, and a step that changes the entry of a key stores a     *)
(* strictly greater slant_distance.                                        *)
C6_SlantNeverDecreases ==
    [][ \A k \in DOMAIN sector_altitude_records :
          /\ k \in DOMAIN sector_altitude_records'
          /\ sector_altitude_records'[k].slant_distance
                >= sector_altitude_records[k].slant_distance
          /\ sector_altitude_records'[k] # sector_altitude_records[k] =>
                sector_altitude_records'[k].slant_distance
                   > sector_altitude_records[k].slant_distance ]_vars

(* A report has offered a measurable aircraft whose slant distance is      *)
(* below the one stored for its key, to a map that also holds a loaded     *)
(* entry.                                                                  *)
C6_Witness ==
    /\ pc = "report"
    /\ iteration >= 2
    /\ \E i \in DOMAIN report_infos :
         LET info == report_infos[i]
             key  == <<get_sector(info.bearing), get_altitude_zone(info.alt_baro.v)>>
         IN /\ Measurable(info, receiver_lat, receiver_lon)
            /\ key \in DOMAIN sector_altitude_records
            /\ info.slant < sector_altitude_records[key].slant_distance
    /\ \E k \in DOMAIN sector_altitude_records :
         sector_altitude_records[k].hex = "b"
           /\ sector_altitude_records[k].slant_distance = 15000

----------------------------------------------------------------------------
(* Claims about the identity fields and the lookups, checked under         *)
(* SpecFields.                                                             *)

(* C11: the tier chain is traversed at most once per hex id per run: no    *)
(* tier (bulk type database, per-hex cache, static database) is asked      *)
(* twice about the same hex id, also when the hex is inserted again after  *)
(* an eviction.                                                            *)
C11_TiersAskedOncePerHex ==
    \A i, j \in DOMAIN lookup_log :
        (lookup_log[i].tier = lookup_log[j].tier
         /\ lookup_log[i].hex = lookup_log[j].hex) => i = j

(* A value a tier holds for a field: anything but a missing key, None, ''  *)
(* and 'N/A'.                                                              *)
Held(x) == x \notin {Absent, Null, Empty, NAText}

(* What the five tiers hold for the registration and for the type of a     *)
(* snapshot, in the order live snapshot, history cache, bulk type          *)
(* database, per-hex cache, static database; the two S3 tiers exist when   *)
(* S3 is enabled, the per-hex cache entry while it is fresh.               *)
FieldOf(db, hex, f) == IF hex \in DOMAIN db THEN db[hex][f] ELSE Absent

TierValues(ac, now, live, hist, bulk, cache, static) ==
    << live,
       FieldOf(history_cache, ac.hex, hist),
       IF s3_upload_enabled THEN FieldOf(type_db_object, ac.hex, bulk) ELSE Absent,
       IF s3_upload_enabled /\ ac.hex \in DOMAIN icao_cache
          /\ Fresh(icao_cache[ac.hex], now)
       THEN icao_cache[ac.hex][cache] ELSE Absent,
       FieldOf(static_db, ac.hex, static) >>

RECURSIVE FirstHeld(_)
FirstHeld(values) ==
    IF values = <<>> THEN Null
    ELSE IF Held(Head(values)) THEN Head(values) ELSE FirstHeld(Tail(values))

Inserted(i) ==
    /\ current_aircraft'[i].hex \notin DOMAIN aircraft_tracking
    /\ current_aircraft'[i].hex \in DOMAIN aircraft_tracking'

FieldStep == pc = "fetch" /\ pc' # "fetch" /\ Len(current_aircraft') = 1

AllAnswered(log) == \A i \in DOMAIN log : log[i].ok

(* C12: on first sight of a hex id, registration and type each take the    *)
(* value of the earliest tier that holds a non-empty value for the field,  *)
(* and are unknown only if no tier holds one (every lookup of the run      *)
(* having been answered).                                                  *)
C12_EarliestTierWins ==
    [][ (FieldStep /\ Inserted(1) /\ AllAnswered(lookup_log')) =>
          LET ac    == current_aircraft'[1]
              entry == aircraft_tracking'[ac.hex]
              r     == FirstHeld(TierValues(ac, clock, ac.r, "r", "registration",
                                            "registration", "r"))
              t     == FirstHeld(TierValues(ac, clock, ac.t, "t", "type", "type", "t"))
          IN /\ IF Held(r) THEN entry.registration = r ELSE ~Held(entry.registration)
             /\ IF Held(t) THEN entry.type = t ELSE ~Held(entry.type)
      ]_vars

(* C13: every tracked aircraft has lat and lon either both holding a value *)
(* or both absent.                                                         *)
C13_LatAndLonTogether ==
    \A h \in DOMAIN aircraft_tracking :
        (aircraft_tracking[h].lat.k = "num") <=> (aircraft_tracking[h].lon.k = "num")

(* A snapshot of a hex that was already tracked: the update branch.        *)
Updated(i) ==
    /\ current_aircraft'[i].hex \in DOMAIN aircraft_tracking
    /\ current_aircraft'[i].hex \in DOMAIN aircraft_tracking'

NoText(x) == x \in {Absent, Null, Empty}
NoNumber(x) == x.k # "num"

(* C14: an update whose snapshot field is missing, null or empty leaves    *)
(* the stored value of that field as it was, for registration, type,       *)
(* squawk, alt_baro and r_dst: a known value is never replaced by null,    *)
(* empty or 'N/A'.                                                         *)
C14_UpdateKeepsKnownFields ==
    [][ (FieldStep /\ Updated(1)) =>
          LET ac  == current_aircraft'[1]
              old == aircraft_tracking[ac.hex]
              new == aircraft_tracking'[ac.hex]
          IN /\ (NoText(ac.r) /\ Held(old.registration))
                    => new.registration = old.registration
             /\ (NoText(ac.t) /\ Held(old.type)) => new.type = old.type
             /\ (NoText(ac.squawk) /\ Held(old.squawk)) => new.squawk = old.squawk
             /\ (NoNumber(ac.alt_baro) /\ old.alt_baro.k = "num")
                    => new.alt_baro = old.alt_baro
             /\ (NoNumber(ac.r_dst) /\ old.r_dst.k = "num")
                    => new.r_dst.k = "num"
      ]_vars

(* C15: once the stored callsign of a tracked aircraft is known and        *)
(* non-empty, an update whose flight is missing, null, empty or            *)
(* whitespace-only leaves it as it is, and any other update changes it     *)
(* only to the non-empty stripped callsign of the snapshot.                *)
C15_KnownCallsignNeverRegresses ==
    [][ (FieldStep /\ Updated(1)) =>
          LET ac  == current_aircraft'[1]
              old == aircraft_tracking[ac.hex]
              new == aircraft_tracking'[ac.hex]
          IN Held(old.flight) =>
               /\ Held(new.flight)
               /\ new.flight # old.flight =>
                    /\ Truthy(ac.flight)
                    /\ new.flight = Strip(ac.flight)
               /\ (NoText(ac.flight) \/ Strip(ac.flight) = Empty)
                    => new.flight = old.flight
      ]_vars

(* An update with a whitespace-only flight has been applied to an aircraft *)
(* whose callsign was known.                                               *)
C15_Witness ==
    /\ pc = "flush1"
    /\ current_aircraft = Blank
    /\ "a" \in DOMAIN aircraft_tracking
    /\ aircraft_tracking["a"].first_seen < aircraft_tracking["a"].last_seen
    /\ aircraft_tracking["a"].flight = "UAL1"

(* C16: the record emitted when a hex id is seen for the first time with a *)
(* valid position, the receiver position being known, carries             *)
(* data_quality 'GPS' and a positive positional distance, and an altitude  *)
(* of 35000 ft is in altitude zone 7.                                      *)
C16_FirstSightRecordIsGPS ==
    [][ (/\ FieldStep /\ Inserted(1)
         /\ is_valid_position(current_aircraft'[1].lat, current_aircraft'[1].lon)
         /\ receiver_lat # 0 /\ receiver_lon # 0) =>
          LET record == pending_aircraft'[Len(pending_aircraft')]
          IN /\ record.hex = current_aircraft'[1].hex
             /\ record.data_quality = DQ_GPS
             /\ record.r_dst.k = "num" /\ record.r_dst.v > 0
             /\ record.alt_baro = Num(35000)
                    => get_altitude_zone(record.alt_baro.v) = 7
      ]_vars

(* C17: whatever the snapshot list holds and whatever storage or network   *)
(* call fails, a poll tick runs to completion without raising: the loop    *)
(* never stops on an exception of update_aircraft_tracking.                *)
C17_TickNeverRaises == pc # "raised"

(* C20: on first sight the resolved pair is written to the per-hex cache   *)
(* only if at least one of registration and type is known after the        *)
(* resolution and the cache did not already hold a fresh entry for the hex.*)
C20_CacheWrittenOnlyWhenNew ==
    \A i \in DOMAIN cache_log :
        /\ Held(cache_log[i].registration) \/ Held(cache_log[i].type)
        /\ ~cache_log[i].held

----------------------------------------------------------------------------
(* Claims about the start of the process, checked under SpecStartup.       *)

(* C18: once the startup is over, the position counts the tracker reports  *)
(* include the valid-position records of the minute objects of the         *)
(* current hour.                                                           *)
C18_CountsIncludeCurrentHour ==
    (pc = "fetch" /\ iteration = 0) =>
        /\ position_reports_24h >= load_current_hour_from_s3(s3_objects, clock, TRUE)
        /\ running_position_count >= load_current_hour_from_s3(s3_objects, clock, TRUE)

----------------------------------------------------------------------------
(* Claims about the reception-record file, checked under SpecRecords.      *)

(* C19: writing the reception-record map and parsing the file again into   *)
(* an empty map gives the same keys, each with the same bearing, slant     *)
(* distance, positional distance and altitude.                             *)
C19_WriteThenLoadIsIdentity ==
    load_reception_records(NoRecords,
        write_reception_records(sector_altitude_records, <<>>, AllWritten), TRUE)
    = sector_altitude_records


----------------------------------------------------------------------------
(* The poll loop over ticks that are minutes apart, so that an aircraft    *)
(* is lost after five minutes of visibility, after less, or together with  *)
(* another one.                                                            *)
SweepLists ==
    { << A(Num(40), Num(-74)) >>,
      << B(Num(41), Num(-74)) >>,
      << A(Num(40), Num(-74)), B(Num(41), Num(-74)) >>,
      << X(Num(40), Num(-74)) >> }

SweepDeltas == { TIMEOUT_SECONDS + 1,
                 LongVisibility - TIMEOUT_SECONDS - 2,
                 LongVisibility - TIMEOUT_SECONDS - 1,
                 LongVisibility }

SwFetch == FetchFrom(SweepLists, {0})
SwSleep == SleepFor(SweepDeltas)

NextSweep == SwFetch \/ Flush1 \/ Flush2 \/ SwSleep

SpecSweep == Init /\ [][NextSweep]_vars

(* The entries a step hands to save_flightaware_urls, call by call.        *)
RECURSIVE Flat(_)
Flat(calls) == IF calls = <<>> THEN <<>> ELSE Head(calls) \o Flat(Tail(calls))

NewlyHanded == Flat(SubSeq(url_calls', Len(url_calls) + 1, Len(url_calls')))

TimesHanded(h) == Cardinality({ i \in DOMAIN NewlyHanded : NewlyHanded[i].hex = h })

(* C21: in every step, an aircraft that the sweep removes from             *)
(* aircraft_tracking is handed to save_flightaware_urls exactly once, as   *)
(* the entry the table still holds, when it was first seen 300 s ago or    *)
(* more, and not at all when it was first seen later; nothing that stays   *)
(* in the table is handed over.                                            *)
C21_LostAfterFiveMinutesIsHandedOnce ==
    [][ /\ \A h \in DOMAIN aircraft_tracking \ DOMAIN aircraft_tracking' :
             TimesHanded(h) =
                 IF clock - aircraft_tracking[h].first_seen >= 300 THEN 1 ELSE 0
        /\ \A i \in DOMAIN NewlyHanded :
             /\ NewlyHanded[i].hex \in DOMAIN aircraft_tracking
             /\ NewlyHanded[i].hex \notin DOMAIN aircraft_tracking'
             /\ NewlyHanded[i] = aircraft_tracking[NewlyHanded[i].hex] ]_vars

(* Aircraft a was lost exactly 300 s after it was first seen and handed    *)
(* over; aircraft b was lost in the same sweep after 31 s and was not.     *)
C21_Witness ==
    /\ aircraft_tracking = NoRecords
    /\ Len(url_calls) = 1
    /\ Len(url_calls[1]) = 1
    /\ url_calls[1][1].hex = "a"
    /\ clock - url_calls[1][1].first_seen = 300
    /\ \E v \in valid_log : v.hex = "b" /\ clock - v.ts = TIMEOUT_SECONDS + 1


----------------------------------------------------------------------------
(* get_sector and get_altitude_zone over their inputs: one aircraft with   *)
(* any whole bearing of the circle and an altitude around a zone border is *)
(* filed by update_sector_altitude_records into the empty map, under the   *)
(* key (get_sector(bearing), get_altitude_zone(altitude)).                 *)
Bearings  == 0 .. SectorCount * SectorWidth
Altitudes == { z * ZoneHeight + o : z \in 0 .. 9, o \in {-1, 0, 1} } \cup {-1000}

Classify ==
    /\ pc = "classify"
    /\ pc' = "done"
    /\ \E r \in { update_sector_altitude_records(RecordState, report_infos[1],
                      report_infos[1].slant, report_infos[1].bearing, AllWritten) } :
         /\ sector_altitude_records' = r.recs
         /\ reception_file' = r.file
         /\ reception_object' = r.object
    /\ UNCHANGED <<receiver_lat, receiver_lon, max_slant_range_record,
                   report_infos, otherVars>>

InitSectors ==
    /\ clock = StartClock
    /\ pc = "classify"
    /\ iteration = 0
    /\ run = 1
    /\ s3_upload_enabled = FALSE
    /\ current_aircraft = <<>>
    /\ aircraft_tracking = NoRecords
    /\ pending_aircraft = <<>>
    /\ current_time = 0
    /\ last_minute_upload_time = 0
    /\ s3_objects = NoRecords
    /\ valid_log = {}
    /\ emitted = 0
    /\ url_calls = <<>>
    /\ position_windows = NoWindows
    /\ put_log = <<>>
    /\ last_s3_upload_time = 0
    /\ last_hourly_rollup_hour = -1
    /\ rollup_log = NoRollup
    /\ receiver_lat = 41
    /\ receiver_lon = -74
    /\ sector_altitude_records = NoRecords
    /\ reception_file = <<>>
    /\ reception_object = <<>>
    /\ max_slant_range_record = 0
    /\ \E bearing \in Bearings, altitude \in Altitudes :
         report_infos = << Info("a", Num(10), Num(altitude), Num(40), Num(-74),
                                bearing, 10000) >>
    /\ NoLookups
    /\ NoCounts

NextSectors == Classify

SpecSectors == InitSectors /\ [][NextSectors]_vars

(* C22: a bearing in [0, 360] is filed under sector floor(bearing / 30)    *)
(* mod 12, a number in 0..11 that is 0 for bearing 360; an altitude is     *)
(* filed under zone 0 when it is negative and under floor(altitude / 5000) *)
(* otherwise: 4999 under 0, 5000 under 1, 35000 under 7.                   *)
C22_SectorAndZoneOfEveryInput ==
    pc = "done" =>
        LET b == report_infos[1].bearing
            a == report_infos[1].alt_baro.v
        IN \E k \in DOMAIN sector_altitude_records :
             /\ DOMAIN sector_altitude_records = {k}
             /\ k[1] \in 0 .. 11
             /\ \E turns \in 0 .. 1 : 30 * (k[1] + 12 * turns) <= b
                                      /\ b < 30 * (k[1] + 12 * turns) + 30
             /\ b = 360 => k[1] = 0
             /\ a < 0 => k[2] = 0
             /\ a >= 0 => 5000 * k[2] <= a /\ a < 5000 * k[2] + 5000
             /\ a = 4999 => k[2] = 0
             /\ a = 5000 => k[2] = 1
             /\ a = 35000 => k[2] = 7

(* Bearing 360 at 35000 ft has been filed, under sector 0 and zone 7.      *)
C22_Witness ==
    /\ pc = "done"
    /\ report_infos[1].bearing = 360
    /\ report_infos[1].alt_baro = Num(35000)
    /\ DOMAIN sector_altitude_records = { <<0, 7>> }


----------------------------------------------------------------------------
(* A report over one measurable aircraft: one call of                      *)
(* update_sector_altitude_records.                                         *)
OneRecordCall ==
    /\ pc = "report"
    /\ iteration' = iteration + 1
    /\ Len(report_infos') = 1
    /\ Measurable(report_infos'[1], receiver_lat, receiver_lon)

(* C23: a call of update_sector_altitude_records stores the offered        *)
(* aircraft under its (sector, zone) key and rewrites the record file      *)
(* (when the write succeeds) if the key has no record or the offered slant *)
(* distance is strictly greater than the stored one, and leaves every      *)
(* other key alone; with an equal or smaller slant distance the map and    *)
(* the file stay as they are.                                              *)
C23_ReplacedOnlyByLongerSlant ==
    [][ OneRecordCall =>
          LET info == report_infos'[1]
              key  == <<get_sector(info.bearing),
                        get_altitude_zone(info.alt_baro.v)>>
          IN IF \/ key \notin DOMAIN sector_altitude_records
                \/ info.slant > sector_altitude_records[key].slant_distance
             THEN /\ DOMAIN sector_altitude_records'
                        = DOMAIN sector_altitude_records \cup {key}
                  /\ sector_altitude_records'[key].hex = info.hex
                  /\ sector_altitude_records'[key].slant_distance = info.slant
                  /\ sector_altitude_records'[key].bearing = info.bearing
                  /\ \A k \in DOMAIN sector_altitude_records \ {key} :
                        sector_altitude_records'[k] = sector_altitude_records[k]
                  /\ \/ reception_file' = reception_file
                     \/ /\ Len(reception_file') = Cardinality(DOMAIN sector_altitude_records')
                        /\ \E i \in DOMAIN reception_file' :
                              /\ reception_file'[i].hex = info.hex
                              /\ reception_file'[i].sector = key[1]
                              /\ reception_file'[i].zone = key[2]
                              /\ reception_file'[i].slant = Round2(info.slant)
             ELSE /\ sector_altitude_records' = sector_altitude_records
                  /\ reception_file' = reception_file ]_vars

(* The last report offered one aircraft with a slant distance below the    *)
(* one stored for the same aircraft, and the file still has a line count   *)
(* that no rewrite would leave.                                            *)
C23_Witness ==
    /\ pc = "report"
    /\ iteration >= 2
    /\ Len(report_infos) = 1
    /\ Measurable(report_infos[1], receiver_lat, receiver_lon)
    /\ LET info == report_infos[1]
           key  == <<get_sector(info.bearing), get_altitude_zone(info.alt_baro.v)>>
       IN /\ key \in DOMAIN sector_altitude_records
          /\ sector_altitude_records[key].hex = info.hex
          /\ sector_altitude_records[key].slant_distance > info.slant
    /\ Len(reception_file) # Cardinality(DOMAIN sector_altitude_records)


----------------------------------------------------------------------------
(* Position counting (SpecFields).                                         *)

WindowNames == {"last_minute", "last_10min", "last_hour", "last_day"}

Times(list, t) == Cardinality({ i \in DOMAIN list : list[i] = t })

----------------------------------------------------------------------------
(* The poll loop with a clock that may move while update_aircraft_tracking *)
(* runs, over lists that name a hex once or twice.                         *)
LagLists ==
    { << A(Num(40), Num(-74)) >>,
      << A(None, None) >>,
      << A(Num(40), Num(-74)), A(None, None) >>,
      << B(Num(41), Num(-74)), A(Num(41), Num(-74)), B(None, None) >> }

LFetch == FetchFrom(LagLists, InsertLags)

NextLag == LFetch \/ Flush1 \/ Flush2 \/ Sleep

SpecLag == Init /\ [][NextLag]_vars

(* C25: after every step each entry of aircraft_tracking carries its key   *)
(* as 'hex' and has last_seen >= first_seen (one entry per hex id is what  *)
(* a table keyed by hex id holds), and a step that keeps a hex in the      *)
(* table, whether its list names the hex once or twice, keeps the entry's  *)
(* first_seen.                                                             *)
C25_OneEntryPerHexSeenInOrder ==
    [][ /\ \A h \in DOMAIN aircraft_tracking' :
             /\ aircraft_tracking'[h].hex = h
             /\ aircraft_tracking'[h].last_seen >= aircraft_tracking'[h].first_seen
        /\ \A h \in DOMAIN aircraft_tracking \cap DOMAIN aircraft_tracking' :
             aircraft_tracking'[h].first_seen = aircraft_tracking[h].first_seen
      ]_vars


----------------------------------------------------------------------------
(* C26: the record appended for an update carries squawk_changed = TRUE    *)
(* exactly when the squawk stored after the update is not None and is not  *)
(* the squawk stored before it, and FALSE whenever the snapshot has no     *)
(* squawk key.                                                             *)
C26_SquawkChangedIffNewAndDifferent ==
    [][ (FieldStep /\ Updated(1) /\ pc' # "raised") =>
          LET ac     == current_aircraft'[1]
              before == aircraft_tracking[ac.hex].squawk
              after  == aircraft_tracking'[ac.hex].squawk
              record == pending_aircraft'[Len(pending_aircraft')]
          IN /\ Len(pending_aircraft') = Len(pending_aircraft) + 1
             /\ record.hex = ac.hex
             /\ record.squawk_changed <=> (after # Null /\ after # before)
             /\ ac.squawk = Absent => ~record.squawk_changed ]_vars

(* The last update replaced the squawk 1200 of `a` by None: the stored     *)
(* squawk differs from the one before and the record is not flagged; the   *)
(* update before it had brought the 1200 and was flagged.                  *)
C26_Witness ==
    /\ Len(pending_aircraft) = 3
    /\ "a" \in DOMAIN aircraft_tracking
    /\ aircraft_tracking["a"].squawk = Null
    /\ pending_aircraft[2].squawk = "1200"
    /\ pending_aircraft[2].squawk_changed
    /\ pending_aircraft[3].squawk = Null
    /\ ~pending_aircraft[3].squawk_changed


----------------------------------------------------------------------------
(* Shutdown and restart.  Ctrl+C during time.sleep raises                  *)
(* KeyboardInterrupt; the handler, lines 3009-3017, uploads what the       *)
(* buffer still holds.  A later start of the program finds the bucket as   *)
(* it was left and the module globals as at any start.                     *)
MaxRuns == 2

RestartDeltas == {3, FlushInterval + 1}

Interrupt ==
    /\ pc = "sleep"
    /\ pc' = "stopped"
    /\ IF s3_upload_enabled /\ pending_aircraft # <<>>
       THEN \E put_ok \in BOOLEAN :
              \E u \in { upload_minute_file_to_s3(pending_aircraft, put_ok) } :
                 /\ s3_objects' = u.objs
                 /\ last_minute_upload_time' = u.lmut
                 /\ put_log' = u.log
       ELSE UNCHANGED <<s3_objects, last_minute_upload_time, put_log>>
    /\ UNCHANGED <<clock, iteration, envVars, trackVars, current_time,
                   rollupVars, recordVars>>

Restart ==
    /\ pc = "stopped"
    /\ run < MaxRuns
    /\ run' = run + 1
    /\ pc' = "fetch"
    /\ \E d \in RestartDeltas : clock' = clock + d
    /\ iteration' = 0
    /\ current_aircraft' = <<>>
    /\ aircraft_tracking' = NoRecords
    /\ pending_aircraft' = <<>>
    /\ position_windows' = NoWindows
    /\ current_time' = 0
    /\ last_minute_upload_time' = 0
    /\ UNCHANGED <<s3_upload_enabled, lookupVars, statVars, valid_log, emitted,
                   url_calls, put_log, s3_objects, rollupVars, recordVars>>

RestartLists == { <<>>, << A(Num(40), Num(-74)) >> }

RsFetch == FetchFrom(RestartLists, {0})

NextRestart == RsFetch \/ Flush1 \/ Flush2 \/ Sleep \/ Interrupt \/ Restart

SpecRestart == Init /\ [][NextRestart]_vars

(* C27: no two successful flushes, whether periodic, on shutdown or after  *)
(* a restart, write the same object key: an object is never written again. *)
C27_MinuteObjectWrittenOnce ==
    \A i, j \in DOMAIN put_log : i < j => put_log[i].key # put_log[j].key


----------------------------------------------------------------------------
(* The requests a step adds to lookup_log.                                 *)
NewLookups == SubSeq(lookup_log', Len(lookup_log) + 1, Len(lookup_log'))

(* C28: a call of get_icao_cache_from_s3 that S3 answers returns the       *)
(* stored entry exactly when the object of the hex exists, decodes, and    *)
(* carries a timestamp that parses and is less than 7 days old; on a miss  *)
(* with registration and type still unknown the next tier, the static      *)
(* database, is asked (unless db_cache already has its answer).            *)
C28_CacheHitIffYoungerThanSevenDays ==
    [][ \A i \in DOMAIN NewLookups :
          (NewLookups[i].tier = "cache" /\ NewLookups[i].ok) =>
            LET hex == NewLookups[i].hex
                hit == NewLookups[i].hit
            IN /\ hit <=> /\ hex \in DOMAIN icao_cache
                          /\ icao_cache[hex].body = "object"
                          /\ icao_cache[hex].timestamp.k = "num"
                          /\ clock - icao_cache[hex].timestamp.v < 7 * 86400
               /\ ( /\ ~hit
                    /\ Len(current_aircraft') = 1
                    /\ current_aircraft' = Bare
                    /\ hex \notin DOMAIN history_cache
                    /\ hex \notin DOMAIN type_db_object )
                  => \/ hex \in DOMAIN db_cache
                     \/ \E j \in DOMAIN NewLookups :
                          j > i /\ NewLookups[j].tier = "static"
                                /\ NewLookups[j].hex = hex ]_vars

(* The cache has been asked for `a`, whose entry is exactly seven days     *)
(* old, and has not returned it; the static database has been asked.       *)
C28_Witness ==
    /\ "a" \in DOMAIN icao_cache
    /\ icao_cache["a"].timestamp = Num(StartClock - 7 * 86400)
    /\ \E i \in DOMAIN lookup_log :
         /\ lookup_log[i].tier = "cache"
         /\ lookup_log[i].hex = "a"
         /\ lookup_log[i].ok
         /\ ~lookup_log[i].hit
         /\ lookup_log[i + 1].tier = "static"
    /\ iteration = 1


----------------------------------------------------------------------------
(* C29: on first sight of a hex id whose snapshot already carries a        *)
(* registration and a type, no tier is asked: the step adds no request     *)
(* for the bulk type database, the per-hex cache or the static database.   *)
C29_NoLookupOnceBothFieldsKnown ==
    [][ ( /\ FieldStep
          /\ Inserted(1)
          /\ Held(current_aircraft'[1].r)
          /\ Held(current_aircraft'[1].t) )
        => \A i \in DOMAIN NewLookups :
             NewLookups[i].tier \notin {"bulk", "cache", "static"} ]_vars


----------------------------------------------------------------------------
(* C30: the record of an update is tagged 'GPS' when its snapshot has a    *)
(* valid position, which also moves position_timestamp to the tick time;   *)
(* without one it is tagged 'GPS approx' and carries the stored            *)
(* coordinates when a snapshot of the aircraft, the inserting one          *)
(* included, had a valid position at most 5 s earlier, and 'No position'   *)
(* in every other case.                                                    *)
C30_QualityDecidedByLastValidPosition ==
    [][ ( /\ TrackStep
          /\ Len(current_aircraft') = 1
          /\ current_aircraft'[1].hex \in DOMAIN aircraft_tracking )
        => LET ac     == current_aircraft'[1]
               old    == aircraft_tracking[ac.hex]
               record == pending_aircraft'[Len(pending_aircraft')]
               recent == \E v \in valid_log : v.hex = ac.hex /\ clock - v.ts <= 5
           IN IF is_valid_position(ac.lat, ac.lon)
              THEN /\ record.data_quality = "GPS"
                   /\ aircraft_tracking'[ac.hex].position_timestamp = clock
              ELSE IF recent
                   THEN /\ record.data_quality = "GPS approx"
                        /\ record.lat = old.lat
                        /\ record.lon = old.lon
                   ELSE record.data_quality = "No position" ]_vars


----------------------------------------------------------------------------
(* What a rollup deletes (SpecRollup).                                     *)

(* The lines of object k of bucket objs, and whether the bucket holds a    *)
(* line of the same (ICAO, Last_Seen) key under the hourly key of hour h.  *)
InHourly(objs, h, line) ==
    /\ HourlyKey(h) \in DOMAIN objs
    /\ \E j \in DOMAIN objs[HourlyKey(h)].lines :
          LineKey(objs[HourlyKey(h)].lines[j]) = LineKey(line)

----------------------------------------------------------------------------
(* The loop that never stops (SpecLive): `while True` of main(), line      *)
(* 2677, with storage calls that all return.  The ticks explored end at    *)
(* MaxTicks; weak fairness of the loop's steps says that the process keeps *)
(* running up to there.                                                    *)
LS3Up == S3UpWith({TRUE})

NextLive == RFetch \/ RFlush1 \/ RFlush2 \/ LS3Up \/ RSleep

SpecLive == InitRollup /\ [][NextLive]_vars /\ WF_vars(NextLive)

(* The hours of the explored ticks.                                        *)
LiveHours == HourOf(StartClock) .. HourOf(StartClock) + MaxTicks

(* A minute object has been written under a key of hour h.                 *)
MinuteWritten(h) == \E i \in DOMAIN put_log : put_log[i].key.hour = h

(* The bucket holds the hourly object of hour h.                           *)
Consolidated(h) ==
    /\ HourlyKey(h) \in DOMAIN s3_objects
    /\ s3_objects[HourlyKey(h)].kind = "hourly"

(* The explored ticks ended while hour h + 1, in which the rollup of hour  *)
(* h is due, was not over.                                                 *)
StillDue(h) == iteration = MaxTicks /\ pc = "fetch" /\ HourOf(clock) <= h + 1

----------------------------------------------------------------------------
(* The age of a per-hex cache entry (SpecFields).                          *)

(* Registration and type of snapshot ac are both held by the fresh         *)
(* per-hex cache entry and by no tier asked before it.                     *)
CameFromCache(ac, now) ==
    LET rs == TierValues(ac, now, ac.r, "r", "registration", "registration", "r")
        ts == TierValues(ac, now, ac.t, "t", "type", "type", "t")
    IN /\ ~Held(rs[1]) /\ ~Held(rs[2]) /\ ~Held(rs[3]) /\ Held(rs[4])
       /\ ~Held(ts[1]) /\ ~Held(ts[2]) /\ ~Held(ts[3]) /\ Held(ts[4])

(* C34: a per-hex cache entry is served for at most 7 days after its       *)
(* values were last obtained from another tier: a first sight whose        *)
(* registration and type came from the per-hex cache leaves the entry and  *)
(* its timestamp as they were.                                             *)
C34_CacheHitKeepsTimestamp ==
    [][ (FieldStep /\ Inserted(1)
         /\ CameFromCache(current_aircraft'[1], clock)) =>
        icao_cache'[current_aircraft'[1].hex].timestamp
            = icao_cache[current_aircraft'[1].hex].timestamp ]_vars


----------------------------------------------------------------------------
(* track_position_for_stats on its own (SpecWindows): calls with           *)
(* timestamps that never decrease, each with the tally of lines 486-487.   *)
(* MaxCalls bounds the calls of a function that is explored on its own.    *)
MaxCalls == 3

(* Seconds from one call to the next: none, and each span and one more.    *)
CallGaps == {0, 1, 60, 61, 600, 601, SecondsPerHour, SecondsPerHour + 1,
             SecondsPerDay, SecondsPerDay + 1}

Track ==
    /\ running_position_count < MaxCalls
    /\ running_position_count' = running_position_count + 1
    /\ \E gap \in CallGaps :
         /\ clock' = clock + gap
         /\ position_windows' = track_position_for_stats(position_windows, clock + gap)
    /\ UNCHANGED <<pc, iteration, run, s3_upload_enabled, lookupVars,
                   runtime_files, position_reports_24h, current_aircraft,
                   aircraft_tracking, pending_aircraft, valid_log, emitted,
                   url_calls, flushVars, s3_objects, rollupVars, recordVars>>

NextWindows == Track

SpecWindows == Init /\ [][NextWindows]_vars

NoOlderThan(list, ts, span) == \A i \in DOMAIN list : ts - list[i] <= span

Holds(list, ts) == \E i \in DOMAIN list : list[i] = ts

(* short is the tail of long.                                              *)
TailOf(short, long) ==
    /\ Len(short) <= Len(long)
    /\ short = SubSeq(long, Len(long) - Len(short) + 1, Len(long))

(* C35: after every call track_position_for_stats(ts) with non-decreasing  *)
(* ts, every timestamp kept in the 1-minute, 10-minute, 1-hour and 1-day   *)
(* list is at most 60, 600, 3600 and 86400 s older than ts, ts is in all   *)
(* four lists, and each list is contained in the next longer one.          *)
C35_WindowsPrunedAndNested ==
    running_position_count > 0 =>
        LET w == position_windows
        IN /\ NoOlderThan(w.last_minute, clock, 60)
           /\ NoOlderThan(w.last_10min, clock, 600)
           /\ NoOlderThan(w.last_hour, clock, 3600)
           /\ NoOlderThan(w.last_day, clock, 86400)
           /\ \A n \in WindowNames : Holds(w[n], clock)
           /\ TailOf(w.last_minute, w.last_10min)
           /\ TailOf(w.last_10min, w.last_hour)
           /\ TailOf(w.last_hour, w.last_day)

(* Three calls, 601 s and 61 s apart: the 1-minute list has dropped two    *)
(* timestamps, the 10-minute list one, the longer lists none.              *)
C35_Witness ==
    /\ running_position_count = 3
    /\ Len(position_windows.last_minute) = 1
    /\ Len(position_windows.last_10min) = 2
    /\ Len(position_windows.last_hour) = 3
    /\ Len(position_windows.last_day) = 3


----------------------------------------------------------------------------
(* Who reaches the range recorder (SpecRecords).                           *)

ReportStep == pc = "report" /\ iteration' = iteration + 1

(* C38: a report hands a tracked aircraft to the range recorder only if    *)
(* the aircraft has a valid stored position, a known altitude and a known  *)
(* positional range and the receiver latitude and longitude are both       *)
(* non-zero: every entry of the reception-record map that a report adds or *)
(* changes is the entry of such an aircraft, and no other aircraft changes *)
(* the map.                                                                *)
C38_RecorderOnlyForLocatedAircraft ==
    [][ ReportStep =>
        \A k \in DOMAIN sector_altitude_records' :
          (k \notin DOMAIN sector_altitude_records
           \/ sector_altitude_records'[k] # sector_altitude_records[k]) =>
             /\ receiver_lat # 0
             /\ receiver_lon # 0
             /\ \E i \in DOMAIN report_infos' :
                  LET info == report_infos'[i]
                  IN /\ info.hex = sector_altitude_records'[k].hex
                     /\ info.alt_baro = sector_altitude_records'[k].alt_baro
                     /\ info.r_dst.k = "num"
                     /\ info.alt_baro.k = "num"
                     /\ info.lat.k = "num" /\ info.lon.k = "num"
                     /\ is_valid_position(info.lat, info.lon) ]_vars

(* A report over an aircraft on the ground and an airborne one, with the   *)
(* receiver position known, has recorded the second and not the first.     *)
C38_Witness ==
    /\ pc = "report"
    /\ iteration >= 1
    /\ receiver_lat # 0
    /\ Len(report_infos) = 2
    /\ report_infos[1].alt_baro = Ground
    /\ \E k \in DOMAIN sector_altitude_records :
         sector_altitude_records[k].hex = "b"
    /\ \A k \in DOMAIN sector_altitude_records :
         sector_altitude_records[k].hex # "a"


----------------------------------------------------------------------------
(* The whole tick (SpecTick): the tick of SpecFields followed by the       *)
(* report of lines 2737-2743, which hands the tracked aircraft to          *)
(* get_longest_slant_range.                                                *)

(* The largest n with n * n <= x, between lo and hi.                       *)
RECURSIVE Root(_, _, _)
Root(x, lo, hi) ==
    IF lo >= hi THEN lo
    ELSE LET mid == (lo + hi + 1) \div 2
         IN IF mid * mid <= x THEN Root(x, mid, hi) ELSE Root(x, lo, mid - 1)

FeetPerMile == 6076

(* calculate_slant_distance, lines 167-174, in thousandths of a nautical   *)
(* mile: sqrt(positional_distance ** 2 + (altitude_ft / 6076.12) ** 2).    *)
calculate_slant_distance(positional_distance, altitude_ft) ==
    LET flat == positional_distance * 1000
        up   == (altitude_ft * 1000) \div FeetPerMile
    IN Root(flat * flat + up * up, 0, 40000)

(* calculate_bearing, lines 137-150, to the eighth of the compass that the *)
(* signs of the two differences give.                                      *)
calculate_bearing(lat1, lon1, lat2, lon2) ==
    IF lat2 > lat1 THEN (IF lon2 > lon1 THEN 45 ELSE IF lon2 < lon1 THEN 315 ELSE 0)
    ELSE IF lat2 < lat1
         THEN (IF lon2 > lon1 THEN 135 ELSE IF lon2 < lon1 THEN 225 ELSE 180)
    ELSE (IF lon2 > lon1 THEN 90 ELSE IF lon2 < lon1 THEN 270 ELSE 0)

(* A tracked aircraft as get_longest_slant_range reads it, lines           *)
(* 2208-2218.                                                              *)
InfoFrom(e) ==
    Info(e.hex, e.r_dst, e.alt_baro, e.lat, e.lon,
         IF is_valid_position(e.lat, e.lon)
         THEN calculate_bearing(receiver_lat, receiver_lon, e.lat.v, e.lon.v) ELSE 0,
         IF e.r_dst.k = "num" /\ e.alt_baro.k = "num"
         THEN calculate_slant_distance(e.r_dst.v, e.alt_baro.v) ELSE 0)

InfosOf(infos) == [ i \in DOMAIN infos |-> InfoFrom(infos[i]) ]

TFlush2 == FlushCheck("flush2", "report", {TRUE})

TickReport ==
    /\ pc = "report"
    /\ pc' = "sleep"
    /\ \E write_ok \in WriteOutcomes :
       \E infos \in { InfosOf(InLoopOrder(aircraft_tracking, DOMAIN aircraft_tracking)) } :
       \E r \in { get_longest_slant_range(RecordState, infos, receiver_lat,
                                          receiver_lon, write_ok) } :
            /\ report_infos' = infos
            /\ sector_altitude_records' = r.recs
            /\ reception_file' = r.file
            /\ reception_object' = r.object
            /\ max_slant_range_record' = r.max
    /\ UNCHANGED <<clock, iteration, envVars, trackVars, flushVars,
                   s3_objects, rollupVars, receiver_lat, receiver_lon>>

NextTick == FFetch \/ FFlush1 \/ TFlush2 \/ TickReport \/ FSleep

SpecTick == InitFields /\ [][NextTick]_vars

(* C36: a tick whose fetch fails or returns no aircraft leaves             *)
(* aircraft_tracking, pending_aircraft, the position tally and the         *)
(* reception records as they were, writes nothing to storage, and goes     *)
(* straight to the sleep before the next tick.                             *)
C36_EmptyTickChangesNothing ==
    [][ (pc = "fetch" /\ iteration' = iteration + 1 /\ current_aircraft' = <<>>) =>
        /\ pc' = "sleep"
        /\ UNCHANGED <<aircraft_tracking, pending_aircraft,
                       running_position_count, position_windows,
                       sector_altitude_records, reception_file,
                       reception_object, max_slant_range_record,
                       s3_objects, put_log, icao_cache, cache_log>> ]_vars

(* An empty tick has come 31 s after a tick that tracked an aircraft,      *)
(* counted its position and recorded its range: the aircraft, by then      *)
(* silent for longer than the timeout, is still tracked.                   *)
C36_Witness ==
    /\ pc = "sleep"
    /\ iteration = 2
    /\ current_aircraft = <<>>
    /\ "a" \in DOMAIN aircraft_tracking
    /\ clock - aircraft_tracking["a"].last_seen > TIMEOUT_SECONDS
    /\ sector_altitude_records # NoRecords
    /\ running_position_count = 1


----------------------------------------------------------------------------
(* get_db_info with its prefix files (SpecDb), lines 314-350.  A hex id is *)
(* the sequence of its characters; static_db is the receiver's /db/        *)
(* directory, file name -> (key -> entry); lookup_log takes one entry per  *)
(* request and one per return.                                             *)

(* str.upper(), line 331.                                                  *)
Upper(c) == IF c = "a" THEN "A" ELSE IF c = "b" THEN "B"
            ELSE IF c = "c" THEN "C" ELSE c

UpperAll(s) == [ i \in DOMAIN s |-> Upper(s[i]) ]

(* hex_code[:prefix_len].upper() and hex_code[prefix_len:], lines 331-332. *)
db_prefix(hex_code, prefix_len) == UpperAll(SubSeq(hex_code, 1, prefix_len))
suffix(hex_code, prefix_len) == SubSeq(hex_code, prefix_len + 1, Len(hex_code))

PrefixLengths == <<3, 2, 1>>

(* Line 349, and a variant that forgets an empty answer.                   *)
EmptyForgotten(dbc, hex_code) == dbc
EmptyRemembered(dbc, hex_code) == Put(dbc, hex_code, NoInfo)

(* The loop of lines 327-346 from the prefix lengths `lens` on.  up: the   *)
(* prefix lengths whose request returns a JSON object; the others raise    *)
(* (no answer, an error status, an undecodable body).                      *)
RECURSIVE TryPrefixes(_, _, _, _, _, _)
TryPrefixes(dbc, log, files, hex_code, lens, up) ==
    IF lens = <<>>
    THEN [ info |-> NoInfo, dbc |-> EmptyRemembered(dbc, hex_code), log |-> log ]
    ELSE LET prefix_len == Head(lens)
             file   == db_prefix(hex_code, prefix_len)
             answer == prefix_len \in up /\ file \in DOMAIN files
             asked  == Append(log, [tier |-> "static", hex |-> hex_code,
                                    file |-> file, ok |-> answer])
         IN IF Len(hex_code) <= prefix_len
            THEN TryPrefixes(dbc, log, files, hex_code, Tail(lens), up)
            ELSE IF answer /\ suffix(hex_code, prefix_len) \in DOMAIN files[file]
            THEN [ info |-> files[file][suffix(hex_code, prefix_len)],
                   dbc  |-> Put(dbc, hex_code,
                                files[file][suffix(hex_code, prefix_len)]),
                   log  |-> asked ]
            ELSE TryPrefixes(dbc, asked, files, hex_code, Tail(lens), up)

get_db_info_files(dbc, log, files, hex_code, up) ==
    IF hex_code \in DOMAIN dbc
    THEN [ info |-> dbc[hex_code], dbc |-> dbc, log |-> log ]
    ELSE IF Len(hex_code) < 1
    THEN [ info |-> NoInfo, dbc |-> dbc, log |-> log ]
    ELSE TryPrefixes(dbc, log, files, hex_code, PrefixLengths, up)

(* The hex ids asked about: of four, three, two and one character, and the *)
(* empty one.                                                              *)
HexIds == { <<"a", "b", "c", "1">>, <<"a", "b", "c", "2">>, <<"a", "b", "c">>,
            <<"a", "b">>, <<"a">>, <<>> }

DbEntry(r, t) == [r |-> r, t |-> t]

(* What the receiver serves: files in which a hex id is found under more   *)
(* than one prefix, and no file at all.                                    *)
DbDirectories ==
    { NoRecords,
      [ f \in { <<"A", "B", "C">>, <<"A", "B">>, <<"A">> } |->
          IF f = <<"A", "B", "C">>
          THEN [ k \in { <<"1">> } |-> DbEntry("N3", "B738") ]
          ELSE IF f = <<"A", "B">>
          THEN [ k \in { <<"c", "1">>, <<"c">> } |-> DbEntry("N2", "A320") ]
          ELSE [ k \in { <<"b", "c", "1">>, <<"b", "c", "2">>, <<"b">> } |->
                   DbEntry("N1", Absent) ] ] }

(* Which requests of one call are answered.                                *)
Answered == { {1, 2, 3}, {1, 2}, {1}, {} }

Returns(log) == { i \in DOMAIN log : log[i].tier = "return" }

DbCall ==
    /\ pc = "lookup"
    /\ Cardinality(Returns(lookup_log)) < MaxCalls
    /\ \E hex_code \in HexIds, up \in Answered :
       \E r \in { get_db_info_files(db_cache, lookup_log, static_db, hex_code, up) } :
          /\ db_cache' = r.dbc
          /\ lookup_log' = Append(r.log, [tier |-> "return", hex |-> hex_code,
                                          info |-> r.info])
    /\ UNCHANGED <<pc, clock, iteration, run, s3_upload_enabled, statVars,
                   history_cache, type_db_object, aircraft_type_db, icao_cache,
                   static_db, cache_log, trackVars, flushVars, s3_objects,
                   rollupVars, recordVars>>

InitDb ==
    /\ clock = StartClock
    /\ pc = "lookup"
    /\ iteration = 0
    /\ run = 1
    /\ s3_upload_enabled = FALSE
    /\ current_aircraft = <<>>
    /\ aircraft_tracking = NoRecords
    /\ pending_aircraft = <<>>
    /\ current_time = 0
    /\ last_minute_upload_time = 0
    /\ s3_objects = NoRecords
    /\ valid_log = {}
    /\ emitted = 0
    /\ url_calls = <<>>
    /\ position_windows = NoWindows
    /\ put_log = <<>>
    /\ last_s3_upload_time = 0
    /\ last_hourly_rollup_hour = -1
    /\ rollup_log = NoRollup
    /\ receiver_lat = 0
    /\ receiver_lon = 0
    /\ sector_altitude_records = NoRecords
    /\ reception_file = <<>>
    /\ reception_object = <<>>
    /\ max_slant_range_record = 0
    /\ report_infos = <<>>
    /\ history_cache = NoRecords
    /\ type_db_object = NoRecords
    /\ aircraft_type_db = [loaded |-> FALSE, db |-> NoRecords]
    /\ icao_cache = NoRecords
    /\ static_db \in DbDirectories
    /\ db_cache = NoRecords
    /\ lookup_log = <<>>
    /\ cache_log = <<>>
    /\ NoCounts

NextDb == DbCall

SpecDb == InitDb /\ [][NextDb]_vars

(* The call a step makes: its hex id, its requests and what it returned.   *)
CalledHex == lookup_log'[Len(lookup_log')].hex
Returned  == lookup_log'[Len(lookup_log')].info
Requests  == SubSeq(lookup_log', Len(lookup_log) + 1, Len(lookup_log') - 1)

(* The rest of the hex id after the prefix of request i, and whether the   *)
(* request found it in its file.                                           *)
Rest(i) == SubSeq(CalledHex, Len(Requests[i].file) + 1, Len(CalledHex))

Found(i) == Requests[i].ok /\ Rest(i) \in DOMAIN static_db[Requests[i].file]

(* The longest prefix asked for: 3 characters, fewer for a hex id of 3     *)
(* characters or less.                                                     *)
LongestPrefix == IF Len(CalledHex) > 3 THEN 3 ELSE Len(CalledHex) - 1

(* C37: get_db_info is memoized per hex id: the first call for a non-empty *)
(* hex id stores its result, whether an entry was found, none was found or *)
(* every request failed, and every later call for the hex id returns the   *)
(* stored result without a request; a first call asks for the files of the *)
(* first 3, 2 and 1 characters, in that order, as far as the hex id is     *)
(* longer than the prefix, stops at the first file that holds the rest of  *)
(* the hex id and returns that entry.                                      *)
C37_MemoizedAndLongestPrefixFirst ==
    [][ (lookup_log' # lookup_log /\ CalledHex # <<>>) =>
        /\ CalledHex \in DOMAIN db_cache'
        /\ db_cache'[CalledHex] = Returned
        /\ \A h \in DOMAIN db_cache :
              h \in DOMAIN db_cache' /\ db_cache'[h] = db_cache[h]
        /\ CalledHex \in DOMAIN db_cache => Requests = <<>>
        /\ CalledHex \notin DOMAIN db_cache =>
              /\ \A i \in DOMAIN Requests :
                    /\ Len(Requests[i].file) = LongestPrefix - i + 1
                    /\ Len(Requests[i].file) >= 1
                    /\ Requests[i].file
                          = UpperAll(SubSeq(CalledHex, 1, Len(Requests[i].file)))
                    /\ i < Len(Requests) => ~Found(i)
              /\ IF Requests # <<>> /\ Found(Len(Requests))
                 THEN Returned = static_db[Requests[Len(Requests)].file]
                                          [Rest(Len(Requests))]
                 ELSE /\ Returned = NoInfo
                      /\ Len(Requests) = LongestPrefix ]_vars

(* A hex id found under its 2-character prefix, after the request for the *)
(* 3-character file had failed, has been asked about again while every    *)
(* request is answered: the second call made no request and returned the  *)
(* entry of the first.                                                     *)
C37_Witness ==
    /\ Len(lookup_log) = 4
    /\ lookup_log[1].tier = "static" /\ ~lookup_log[1].ok
    /\ lookup_log[2].tier = "static" /\ lookup_log[2].ok
    /\ lookup_log[3].tier = "return"
    /\ lookup_log[3].hex = <<"a", "b", "c", "1">>
    /\ lookup_log[3].info = DbEntry("N2", "A320")
    /\ lookup_log[4].tier = "return"
    /\ lookup_log[4].hex = <<"a", "b", "c", "1">>
    /\ lookup_log[4].info = DbEntry("N2", "A320")


(* ---------------------------------------------------------------------- *)
(* The rows of the reception-record file.                                  *)
(* ---------------------------------------------------------------------- *)

(* rows holds one row for every key of recs and nothing else, the row of a *)
(* key carrying that key's record.                                         *)
OneRowPerKey(rows, recs) ==
    /\ Len(rows) = Cardinality(DOMAIN recs)
    /\ \A k \in DOMAIN recs :
          \E i \in 1..Len(rows) :
             /\ rows[i].sector = k[1]
             /\ rows[i].zone = k[2]
             /\ rows[i].hex = recs[k].hex
             /\ rows[i].bearing = recs[k].bearing

(* Every row of rows has a smaller sector than the next one or, in the     *)
(* same sector, a smaller altitude zone.                                   *)
Ascending(rows) ==
    \A i \in 1..(Len(rows) - 1) :
       \/ rows[i].sector < rows[i + 1].sector
       \/ /\ rows[i].sector = rows[i + 1].sector
          /\ rows[i].zone < rows[i + 1].zone

(* C39: whenever a step rewrites the reception-record file, the file holds *)
(* exactly one row for every key of sector_altitude_records, the rows in   *)
(* ascending (sector, altitude zone) order; and whenever a step replaces   *)
(* the copy in the reception bucket, the copy is the content of the file.  *)
C39_OneRowPerKeySortedAndMirrored ==
    [][ /\ reception_file' # reception_file
           => /\ OneRowPerKey(reception_file', sector_altitude_records')
              /\ Ascending(reception_file')
        /\ reception_object' # reception_object
           => /\ reception_object' = reception_file'
              /\ OneRowPerKey(reception_object', sector_altitude_records')
              /\ Ascending(reception_object') ]_vars

(* A report that met the aircraft of sector 3 before the aircraft of       *)
(* sector 1 has written both rows, and the bucket holds the same rows.     *)
C39_Witness ==
    /\ Len(report_infos) = 2
    /\ get_sector(report_infos[1].bearing) > get_sector(report_infos[2].bearing)
    /\ Len(reception_file) >= 2
    /\ \E i \in 1..Len(reception_file) : reception_file[i].hex = report_infos[1].hex
    /\ \E i \in 1..Len(reception_file) : reception_file[i].hex = report_infos[2].hex
    /\ reception_object = reception_file


----------------------------------------------------------------------------
(* is_valid_position over its inputs: one aircraft of the feed whose lat   *)
(* and lon are any two of the values below, and the call of line 485.      *)
Degrees == {-181, -180, -91, -90, 0, 40, 90, 91, 180, 181}

Coordinates ==
    {None, NA, Ground, List, NaN, Inf(1), Inf(-1), Huge(1), Huge(-1)}
        \cup { Num(n) : n \in Degrees } \cup { Str(n) : n \in Degrees }

Validate ==
    /\ pc = "validate"
    /\ \E r \in { position_call(current_aircraft[1].lat, current_aircraft[1].lon) } :
         pc' = IF r.exc # "" THEN "raised"
               ELSE IF r.value THEN "valid" ELSE "invalid"
    /\ UNCHANGED <<clock, iteration, envVars, current_aircraft, aircraft_tracking,
                   pending_aircraft, current_time, last_minute_upload_time,
                   s3_objects, valid_log, emitted, url_calls, position_windows,
                   put_log, last_s3_upload_time, last_hourly_rollup_hour,
                   rollup_log, recordVars>>

InitPosition ==
    /\ clock = StartClock
    /\ pc = "validate"
    /\ iteration = 0
    /\ run = 1
    /\ s3_upload_enabled = FALSE
    /\ \E lat \in Coordinates, lon \in Coordinates :
         current_aircraft = << [hex |-> "a", lat |-> lat, lon |-> lon] >>
    /\ aircraft_tracking = NoRecords
    /\ pending_aircraft = <<>>
    /\ current_time = 0
    /\ last_minute_upload_time = 0
    /\ s3_objects = NoRecords
    /\ valid_log = {}
    /\ emitted = 0
    /\ url_calls = <<>>
    /\ position_windows = NoWindows
    /\ put_log = <<>>
    /\ last_s3_upload_time = 0
    /\ last_hourly_rollup_hour = -1
    /\ rollup_log = NoRollup
    /\ receiver_lat = 0
    /\ receiver_lon = 0
    /\ sector_altitude_records = NoRecords
    /\ reception_file = <<>>
    /\ reception_object = <<>>
    /\ max_slant_range_record = 0
    /\ report_infos = <<>>
    /\ NoLookups
    /\ NoCounts

NextPosition == Validate

SpecPosition == InitPosition /\ [][NextPosition]_vars

(* The value is a finite number, or a string that spells one, between lo   *)
(* and hi.                                                                 *)
AcceptableBetween(x, lo, hi) == x.k \in {"num", "str"} /\ lo <= x.v /\ x.v <= hi

(* C40: a call of is_valid_position(lat, lon) returns, and it returns True *)
(* exactly when lat is a finite number (or spells one) in [-90, 90] and    *)
(* lon is one in [-180, 180]; for every other pair (None, 'N/A', a string  *)
(* that is no number, NaN, an infinity, a number out of range, in either   *)
(* place) it returns False.                                                *)
C40_ValidExactlyWhenBothInRange ==
    pc # "validate" =>
        LET lat == current_aircraft[1].lat
            lon == current_aircraft[1].lon
        IN IF AcceptableBetween(lat, -90, 90) /\ AcceptableBetween(lon, -180, 180)
           THEN pc = "valid"
           ELSE pc = "invalid"

====
